---------------------------- MODULE Spec2Model ----------------------------
(***************************************************************************)
(* The card and column position engine of the rehlatodo server            *)
(* (server/routes/cards.js and server/routes/columns.js), with its        *)
(* transactional activity log.                                             *)
(*                                                                         *)
(* Storage is the four tables cards, columns, tags and logs.  A handler    *)
(* that opens a sequelize transaction works on an overlay of its own writes*)
(* (tx): it reads the committed tables plus its overlay, and its writes    *)
(* reach the committed tables at commit and are dropped at rollback.  A    *)
(* statement that updates or deletes a row another open transaction has    *)
(* written waits for that transaction (row lock); a waiting statement is   *)
(* modelled as one that has not started.                                   *)
(*                                                                         *)
(* The tables are built by sequelize.sync() from the models and their      *)
(* associations (models/index.js), so they carry the foreign keys the      *)
(* associations declare: cards.column_id references columns (Column        *)
(* hasMany Card) and logs.card_id references cards (Card hasMany Log, on   *)
(* a nullable key: ON DELETE SET NULL), as cards.tag_id references tags    *)
(* (Tag hasMany Card, nullable).  An insert that names a missing           *)
(* parent row fails, and deleting a card nulls the card_id of its log      *)
(* rows.  No table carries a uniqueness constraint on positions.  Every    *)
(* other storage error is a nondeterministic fault of a statement (Fault). *)
(* transaction.commit() itself is taken not to fail.                       *)
(*                                                                         *)
(* Beside the board the module holds the handlers of the sessions and of   *)
(* the registration (server/routes/auth.js), the delete handler of the     *)
(* tags, the reads of the board and of the log, and the drag-and-drop of   *)
(* the board page (client/app/pages/tasks.tsx) with the requests it sends. *)
(***************************************************************************)
EXTENDS Integers, Sequences, FiniteSets, TLC

\* ------------------------------------------------------------- bounds
MaxCards   == 3   \* card ids 1..MaxCards are handed out by the autoincrement
MaxCols    == 4   \* column ids 1..MaxCols (three are seeded)
MaxPos     == 3   \* destination positions a card request may carry: 1..MaxPos
MaxColPos  == 4   \* destination positions a column request may carry
MaxLog     == 3   \* card mutations are started while the log is shorter
MaxConcOps == 2   \* card mutations started in a run of two concurrent handlers
MaxConcCards == 4 \* card ids handed out in a run of two concurrent handlers
MaxColOps  == 2   \* column mutations are started while fewer have been written
MaxMoveOps == 2   \* card mutations started on the board of three cards
MaxMoveCards == 4 \* card ids handed out on the board of three cards
MaxRacedOps == 1      \* card calls after the race
MaxRacedCards == 5    \* card ids on the board the race left
MaxDrags == 2         \* drags of the board page that end in a request
MaxBoardLog == 2  \* card mutations started beside column mutations and reads
MaxBoardColOps == 1 \* column mutations written beside card mutations and reads
MaxStamped == 2   \* rows of a log drawn with free timestamps and owners
MaxSummaryLog == 24 \* rows of a log drawn to exceed the limit of the summary
MaxDay == 2       \* calendar days a request for the log of a day may name: 0..MaxDay
MaxConcCols == 5  \* column ids handed out in a run of two concurrent handlers
MaxOwnedCols == 5 \* column ids handed out on the board with a column of user 1
MaxOwnedOps == 2  \* column mutations written on the board with a column of user 1
MaxTags == 4      \* tag ids a request may name: 1..MaxTags (two are seeded)
MaxTagCards == 2  \* card ids handed out beside tag deletions
MaxTokens == 2    \* refresh tokens the logins of a run sign
MaxClock == 6     \* the clock stops here
Second == 2       \* clock ticks in a second
RefreshTicks == 4 \* JWT_REFRESH_EXPIRATION in clock ticks, whole seconds

\* ------------------------------------------------------------- values
NoUser  == 0        \* userId NULL: a system column, a shared card
NoPos   == 0        \* a position that is absent (falsy) or NULL
NoId    == 0        \* no row
NullStr == "NULL"   \* a string column that is NULL, a body field that is absent

Users    == {1, 2}
Handlers == {1, 2}
CardIds  == 1..MaxCards
ColIds   == 1..MaxCols
Titles   == {"T"}
Names    == {"X"}
TagIds   == 1..MaxTags
TokenIds == 1..(MaxTokens + 1)  \* the last one is signed by no login

EmptyTable == [id \in {} |-> 0]

NoCard   == [title |-> NullStr, columnId |-> NoId, position |-> NoPos, userId |-> NoUser,
             tagId |-> NoId]
NoColumn == [name |-> NullStr, position |-> NoPos, userId |-> NoUser]

NoReq == [kind |-> "none", user |-> NoUser, card |-> NoId, col |-> NoId,
          pos |-> NoPos, title |-> NullStr, name |-> NullStr,
          day |-> 0, now |-> 0, tag |-> NoId, email |-> NullStr, password |-> NullStr,
          token |-> NoId, posGiven |-> FALSE]

NoTx == [cardW |-> EmptyTable, cardD |-> {}, colW |-> EmptyTable, colD |-> {},
         tagD |-> {}, logA |-> <<>>, logN |-> {}, open |-> FALSE]

NoLoc == [card |-> NoCard, column |-> NoColumn, fromColumn |-> NullStr,
          toColumn |-> NullStr, position |-> NoPos, newId |-> NoId,
          rows |-> <<>>, faultAt |-> "none"]

VARIABLES
  cards,       \* committed rows of table cards: card id -> row
  columns,     \* committed rows of table columns: column id -> row
  tags,        \* committed rows of table tags: tag id -> row
  refreshTokens, \* committed rows of table refresh_tokens: token -> row
  issued,      \* the refresh tokens signed so far: token -> its payload
  revoked,     \* the refresh tokens a logout has been answered for
  clock,       \* the time
  accounts,    \* table users: the emails of the registered users
  client,      \* the board page of the browser of user 1
  log,         \* committed rows of table logs, in insertion order
  nextCardId,  \* the autoincrement of cards.id
  nextColId,   \* the autoincrement of columns.id
  colWrites,   \* how many column mutations were written (bounds the run)
  pc,          \* per handler: the statement it is about to run
  req,         \* per handler: the request it serves
  loc,         \* per handler: its local variables
  tx,          \* per handler: the writes of its open transaction
  outcome,     \* per handler: the response it sent
  pre          \* per handler: the committed tables when the request arrived

\* The variables of the sessions and of the registration.
auth == <<refreshTokens, issued, revoked, clock, accounts>>

vars == <<cards, columns, tags, auth, client, log, nextCardId, nextColId, colWrites,
          pc, req, loc, tx, outcome, pre>>

\* ------------------------------------------------------------- storage

\* database/init.js: the three default columns, owned by nobody.
SeedColumns ==
  (1 :> [name |-> "Backlog", position |-> 1, userId |-> NoUser]) @@
  (2 :> [name |-> "To Do",   position |-> 2, userId |-> NoUser]) @@
  (3 :> [name |-> "Done",    position |-> 3, userId |-> NoUser])

\* database/init.js: the two default tags, owned by nobody.
SeedTags ==
  (1 :> [name |-> "Shopping", userId |-> NoUser]) @@
  (2 :> [name |-> "Cleaning", userId |-> NoUser])

\* dragCard.current, dragOverCard.current: null.
NoDrag == [column_id |-> NoId, cardId |-> NoId, index |-> 0]

\* The board page before its data is loaded.
NoClient ==
  [board |-> << >>, dragCard |-> NoDrag, dragOverCard |-> NoDrag, pc |-> "idle",
   result |-> "none", drags |-> 0]

\* No session has been opened and no page is loaded.
InitAuth ==
  /\ client = NoClient
  /\ refreshTokens = EmptyTable
  /\ issued = EmptyTable
  /\ revoked = {}
  /\ clock = 0
  /\ accounts = {}

NoPre == [cards |-> EmptyTable, columns |-> EmptyTable, tags |-> EmptyTable,
          log |-> <<>>]

Init ==
  /\ cards = EmptyTable
  /\ columns = SeedColumns
  /\ tags = SeedTags
  /\ InitAuth
  /\ log = <<>>
  /\ nextCardId = 1
  /\ nextColId = 4
  /\ colWrites = 0
  /\ pc = [h \in Handlers |-> "idle"]
  /\ req = [h \in Handlers |-> NoReq]
  /\ loc = [h \in Handlers |-> NoLoc]
  /\ tx = [h \in Handlers |-> NoTx]
  /\ outcome = [h \in Handlers |-> "none"]
  /\ pre = [h \in Handlers |-> NoPre]

\* What handler h reads from cards: the committed rows and its own writes.
ViewCards(h) ==
  LET w == tx[h].cardW
      ids == ((DOMAIN cards) \ tx[h].cardD) \cup DOMAIN w
  IN [id \in ids |-> IF id \in DOMAIN w THEN w[id] ELSE cards[id]]

ViewColumns(h) ==
  LET w == tx[h].colW
      ids == ((DOMAIN columns) \ tx[h].colD) \cup DOMAIN w
  IN [id \in ids |-> IF id \in DOMAIN w THEN w[id] ELSE columns[id]]

\* What handler h reads from tags: the committed rows less its own deletes.
ViewTags(h) ==
  [id \in (DOMAIN tags) \ tx[h].tagD |-> tags[id]]

\* The rows another open transaction has written and not yet committed.
CardLocks(h) ==
  UNION {DOMAIN tx[g].cardW \cup tx[g].cardD : g \in Handlers \ {h}}

ColumnLocks(h) ==
  UNION {DOMAIN tx[g].colW \cup tx[g].colD : g \in Handlers \ {h}}

Max(S) == CHOOSE x \in S : \A y \in S : y <= x

\* MaxPosition that answers NULL over any rows.
MaxPositionNull(rows) == NoPos

\* Model.max('position', {where}): NULL (here NoPos) over no rows.
MaxPosition(rows) ==
  IF rows = {} THEN NoPos ELSE Max(rows)


\* The cards of column col whose position lies in lo..hi.
MatchRange(view, col, lo, hi) ==
  {id \in DOMAIN view : /\ view[id].columnId = col
                        /\ lo <= view[id].position
                        /\ view[id].position <= hi}

\* MatchFrom with Op.gt in the place of Op.gte.
MatchFromExclusive(view, col, lo) ==
  {id \in DOMAIN view : view[id].columnId = col /\ lo < view[id].position}

\* The cards of column col whose position is at least lo.
MatchFrom(view, col, lo) ==
  {id \in DOMAIN view : view[id].columnId = col /\ lo <= view[id].position}

\* Model.increment('position', {by, where}) on the rows ids.
Incremented(view, ids, by) ==
  [id \in ids |-> [view[id] EXCEPT !.position = @ + by]]

Restrict(f, S) == [x \in S |-> f[x]]

\* TxSteps with currentCard.update(...) missing its { transaction }.
TxStepsWriteOutside ==
  {"c_insert", "c_log", "u_shift", "u_shift2", "u_log", "d_destroy",
   "d_shift", "d_log", "uc_shift", "uc_write", "dc_cards", "dc_destroy",
   "dc_shift", "dt_cards", "dt_destroy"}

\* TxSteps with Card.create(...) missing its { transaction }.
TxStepsInsertOutside ==
  {"c_log", "u_shift", "u_shift2", "u_write", "u_log", "d_destroy",
   "d_shift", "d_log", "uc_shift", "uc_write", "dc_cards", "dc_destroy",
   "dc_shift", "dt_cards", "dt_destroy"}

\* TxSteps with Card.update({ tagId: null }, ...) missing its transaction.
TxStepsUntagOutside ==
  {"c_insert", "c_log", "u_shift", "u_shift2", "u_write", "u_log",
   "d_destroy", "d_shift", "d_log", "uc_shift", "uc_write", "dc_cards",
   "dc_destroy", "dc_shift", "dt_destroy"}

\* The write statements that pass { transaction }: every one of the card
\* handlers, of the column update and delete handlers and of the tag delete
\* handler; Column.create of the column create handler (cc_insert) runs
\* outside any transaction.
TxSteps ==
  {"c_insert", "c_log", "u_shift", "u_shift2", "u_write", "u_log",
   "d_destroy", "d_shift", "d_log", "uc_shift", "uc_write", "dc_cards",
   "dc_destroy", "dc_shift", "dt_cards", "dt_destroy"}

\* One write statement of handler h at step: rows of cards written (insert
\* or update), inside the transaction or straight to the table.
PutCards(h, step, rows) ==
  /\ IF step \in TxSteps
       THEN /\ tx' = [tx EXCEPT ![h].cardW = rows @@ @]
            /\ cards' = cards
       ELSE /\ cards' = rows @@ cards
            /\ tx' = tx
  /\ UNCHANGED <<columns, tags, auth, client, log>>

\* Card hasMany Log, Log belongsTo Card on the nullable logs.card_id: the
\* log rows of a deleted card keep everything but their card_id.
SetNull(entries, ids) ==
  [n \in DOMAIN entries |->
     IF entries[n].cardId \in ids
       THEN [entries[n] EXCEPT !.cardId = NoId] ELSE entries[n]]

\* Rows of cards deleted, and with them the card_id of their log rows.
DelCards(h, step, ids) ==
  /\ IF step \in TxSteps
       THEN /\ tx' = [tx EXCEPT
                 ![h].cardW = Restrict(@, (DOMAIN @) \ ids),
                 ![h].cardD = @ \cup (ids \cap DOMAIN cards),
                 ![h].logA = SetNull(@, ids),
                 ![h].logN = @ \cup ids]
            /\ cards' = cards
            /\ log' = log
       ELSE /\ cards' = Restrict(cards, (DOMAIN cards) \ ids)
            /\ log' = SetNull(log, ids)
            /\ tx' = tx
  /\ UNCHANGED <<columns, tags, auth, client>>

PutColumns(h, step, rows) ==
  /\ IF step \in TxSteps
       THEN /\ tx' = [tx EXCEPT ![h].colW = rows @@ @]
            /\ columns' = columns
       ELSE /\ columns' = rows @@ columns
            /\ tx' = tx
  /\ UNCHANGED <<cards, tags, auth, client, log>>

\* Rows of columns deleted. Column hasMany Card on the cards.column_id that
\* is allowNull: false: the cards still in a deleted column go with it, and
\* with them the card_id of their log rows.
DelColumns(h, step, ids) ==
  IF step \in TxSteps
    THEN LET view == ViewCards(h)
             gone == {i \in DOMAIN view : view[i].columnId \in ids}
         IN /\ tx' = [tx EXCEPT
                 ![h].colW = Restrict(@, (DOMAIN @) \ ids),
                 ![h].colD = @ \cup (ids \cap DOMAIN columns),
                 ![h].cardW = Restrict(@, (DOMAIN @) \ gone),
                 ![h].cardD = @ \cup (gone \cap DOMAIN cards),
                 ![h].logA = SetNull(@, gone),
                 ![h].logN = @ \cup gone]
            /\ UNCHANGED <<cards, columns, tags, auth, client, log>>
    ELSE LET gone == {i \in DOMAIN cards : cards[i].columnId \in ids}
         IN /\ columns' = Restrict(columns, (DOMAIN columns) \ ids)
            /\ cards' = Restrict(cards, (DOMAIN cards) \ gone)
            /\ log' = SetNull(log, gone)
            /\ tx' = tx
            /\ tags' = tags
            /\ UNCHANGED <<auth, client>>

\* The rows of cards that name a tag of ids, with their tag_id NULL.
Untagged(view, ids) ==
  [i \in {c \in DOMAIN view : view[c].tagId \in ids} |->
     [view[i] EXCEPT !.tagId = NoId]]

\* Rows of tags deleted. Tag hasMany Card on the nullable cards.tag_id: the
\* cards that still name a deleted tag keep everything but their tag_id.
DelTags(h, step, ids) ==
  IF step \in TxSteps
    THEN /\ tx' = [tx EXCEPT
              ![h].tagD = @ \cup (ids \cap DOMAIN tags),
              ![h].cardW = Untagged(ViewCards(h), ids) @@ @]
         /\ UNCHANGED <<cards, columns, tags, auth, client, log>>
    ELSE /\ tags' = Restrict(tags, (DOMAIN tags) \ ids)
         /\ UNCHANGED <<auth, client>>
         /\ cards' = Untagged(cards, ids) @@ cards
         /\ tx' = tx
         /\ UNCHANGED <<columns, log>>

\* Log.create(entry, { transaction }).
PutLog(h, step, entry) ==
  /\ IF step \in TxSteps
       THEN /\ tx' = [tx EXCEPT ![h].logA = Append(@, entry)]
            /\ log' = log
       ELSE /\ log' = Append(log, entry)
            /\ tx' = tx
  /\ UNCHANGED <<cards, columns, tags, auth, client>>

\* ------------------------------------------------------------- handlers

Goto(h, p) == pc' = [pc EXCEPT ![h] = p]

\* res.status(...).json(...): the handler has answered.
Respond(h, o) ==
  /\ pc' = [pc EXCEPT ![h] = "done"]
  /\ outcome' = [outcome EXCEPT ![h] = o]

\* await transaction.rollback() of an open transaction, then the response o.
RollbackAnd(h, o) ==
  /\ tx' = [tx EXCEPT ![h] = NoTx]
  /\ Respond(h, o)
  /\ UNCHANGED <<cards, columns, tags, auth, client, log>>

\* The catch block of a handler: roll back, answer 500.
Catch(h, at) ==
  /\ RollbackAnd(h, "error")
  /\ loc' = [loc EXCEPT ![h].faultAt = at]

\* A request arrives at handler h: sequelize.transaction() where the handler
\* opens one, and the first statement is next.
Arrive(h, r, first, opens) ==
  /\ req' = [req EXCEPT ![h] = r]
  /\ pc' = [pc EXCEPT ![h] = first]
  /\ tx' = [tx EXCEPT ![h] = [NoTx EXCEPT !.open = opens]]
  /\ loc' = [loc EXCEPT ![h] = NoLoc]
  /\ outcome' = [outcome EXCEPT ![h] = "none"]
  /\ pre' = [pre EXCEPT ![h] = [cards |-> cards, columns |-> columns, tags |-> tags, log |-> log]]
  /\ UNCHANGED <<cards, columns, tags, auth, log, nextCardId, nextColId, colWrites>>

\* A request that is not the browser's arrives at handler h.
Start(h, r, first, opens) ==
  /\ Arrive(h, r, first, opens)
  /\ UNCHANGED client

CreateItemRequests ==
  {[NoReq EXCEPT !.kind = "createItem", !.user = u, !.col = c, !.title = t] :
     u \in Users, c \in ColIds, t \in Titles \cup {NullStr}}

UpdateItemRequests ==
  {[NoReq EXCEPT !.kind = "updateItem", !.user = u, !.card = i, !.col = c,
                 !.pos = p, !.title = t] :
     u \in Users, i \in CardIds, c \in ColIds, p \in 1..MaxPos,
     t \in Titles \cup {NullStr}}

DeleteItemRequests ==
  {[NoReq EXCEPT !.kind = "deleteItem", !.user = u, !.card = i] :
     u \in Users, i \in CardIds}

ItemRequests == CreateItemRequests \cup UpdateItemRequests \cup DeleteItemRequests

FirstStep(kind) ==
  CASE kind = "createItem" -> "c_max"
    [] kind = "updateItem" -> "u_find"
    [] kind = "deleteItem" -> "d_find"
    [] kind = "createContainer" -> "cc_max"
    [] kind = "updateContainer" -> "uc_find"
    [] kind = "deleteContainer" -> "dc_find"
    [] kind = "renderNarratives" -> "r_query"
    [] kind = "listGrouped" -> "g_query"
    [] kind = "listByDate" -> "bd_query"
    [] kind = "listByItem" -> "bi_query"
    [] kind = "recentSummary" -> "s_query"
    [] kind = "deleteTag" -> "dt_find"
    [] kind = "login" -> "li_find"
    [] kind = "refreshToken" -> "rt_find"
    [] kind = "logout" -> "lo_destroy"
    [] kind = "register" -> "rg_validate"
    [] kind = "listCards" -> "lc_query"
    [] kind = "getCard" -> "gc_query"
    [] kind = "listColumns" -> "lcol_query"
    [] kind = "getColumn" -> "gcol_query"
    [] kind = "listCardsByTag" -> "lt_query"

\* A card request arrives while no other request is being served.
BeginItem(h) ==
  /\ \A g \in Handlers : pc[g] = "idle"
  /\ Len(log) < MaxLog
  /\ \E r \in ItemRequests :
       /\ r.kind = "createItem" => nextCardId <= MaxCards
       /\ Start(h, r, FirstStep(r.kind), TRUE)

\* router.post('/'): Card.max('position', { where: { columnId } }).
CreateMax(h) ==
  /\ pc[h] = "c_max"
  /\ LET view == ViewCards(h)
         maxPosition == MaxPosition({view[id].position :
                           id \in {i \in DOMAIN view : view[i].columnId = req[h].col}})
     IN loc' = [loc EXCEPT ![h].position = maxPosition + 1]
  /\ Goto(h, "c_insert")
  /\ UNCHANGED <<cards, columns, tags, auth, client, log, nextCardId, nextColId, colWrites,
                 req, tx, outcome, pre>>

\* router.post('/'): Card.create(...); title is allowNull: false, and
\* column_id references columns, tag_id (where given) tags.
CreateInsert(h) ==
  /\ pc[h] = "c_insert"
  /\ IF req[h].title = NullStr
       THEN /\ Catch(h, "validation")
            /\ UNCHANGED <<nextCardId>>
       ELSE IF req[h].col \notin DOMAIN ViewColumns(h)
       THEN /\ Catch(h, "foreign_key")
            /\ UNCHANGED <<nextCardId>>
       ELSE IF req[h].tag # NoId /\ req[h].tag \notin DOMAIN ViewTags(h)
       THEN /\ Catch(h, "foreign_key")
            /\ UNCHANGED <<nextCardId>>
       ELSE /\ PutCards(h, "c_insert",
                 nextCardId :> [title |-> req[h].title, columnId |-> req[h].col,
                                position |-> loc[h].position, userId |-> req[h].user,
                                tagId |-> req[h].tag])
            /\ loc' = [loc EXCEPT ![h].newId = nextCardId]
            /\ nextCardId' = nextCardId + 1
            /\ Goto(h, "c_findcol")
            /\ UNCHANGED outcome
  /\ UNCHANGED <<nextColId, colWrites, req, pre>>

\* router.post('/'): Column.findByPk(column_id), 404 after a rollback.
CreateFindColumn(h) ==
  /\ pc[h] = "c_findcol"
  /\ LET view == ViewColumns(h) IN
       IF req[h].col \notin DOMAIN view
         THEN /\ RollbackAnd(h, "notfound")
              /\ UNCHANGED loc
         ELSE /\ loc' = [loc EXCEPT ![h].column = view[req[h].col],
                                    ![h].toColumn = view[req[h].col].name]
              /\ Goto(h, "c_log")
              /\ UNCHANGED <<cards, columns, tags, auth, client, log, tx, outcome>>
  /\ UNCHANGED <<nextCardId, nextColId, colWrites, req, pre>>

\* LogEntry with the two column names exchanged.
LogEntrySwapped(id, title, action, fromCol, toCol, fromPos, toPos, user) ==
  [cardId |-> id, cardTitle |-> title, actionType |-> action,
   fromColumn |-> toCol, toColumn |-> fromCol,
   fromPosition |-> fromPos, toPosition |-> toPos, userId |-> user]

\* A row of logs (models/Log.js), without its id and created_at.
LogEntry(id, title, action, fromCol, toCol, fromPos, toPos, user) ==
  [cardId |-> id, cardTitle |-> title, actionType |-> action,
   fromColumn |-> fromCol, toColumn |-> toCol,
   fromPosition |-> fromPos, toPosition |-> toPos, userId |-> user]

\* router.post('/'): Log.create({... actionType: 'created' ...}).
CreateLog(h) ==
  /\ pc[h] = "c_log"
  /\ PutLog(h, "c_log",
       LogEntry(loc[h].newId, req[h].title, "created", NullStr,
                loc[h].toColumn, NoPos, loc[h].position, req[h].user))
  /\ Goto(h, "commit")
  /\ UNCHANGED <<nextCardId, nextColId, colWrites, req, loc, outcome, pre>>

\* ActionType with the final else branch logging a move.
ActionTypeNeverUpdated(card, col, pos) ==
  IF col # card.columnId THEN "moved_column"
  ELSE IF pos # card.position
         THEN (IF pos < card.position THEN "moved_up" ELSE "moved_down")
         ELSE "moved_down"

\* ActionType with the two directions of a move inside a column exchanged.
ActionTypeSwapped(card, col, pos) ==
  IF col # card.columnId THEN "moved_column"
  ELSE IF pos # card.position
         THEN (IF pos < card.position THEN "moved_down" ELSE "moved_up")
         ELSE "updated"

\* router.put('/:id'): the action kind written to the log.
ActionType(card, col, pos) ==
  IF col # card.columnId THEN "moved_column"
  ELSE IF pos # card.position
         THEN (IF pos < card.position THEN "moved_up" ELSE "moved_down")
         ELSE "updated"

\* router.put('/:id'), router.delete('/:id'): Card.findByPk(id, { include:
\* Column }), 404 after a rollback.  fromColumn is currentCard.Column.name,
\* NullStr standing for a card whose Column is null.
FindCard(h, next) ==
  LET view == ViewCards(h)
      cols == ViewColumns(h)
  IN IF req[h].card \notin DOMAIN view
       THEN /\ RollbackAnd(h, "notfound")
            /\ UNCHANGED loc
       ELSE LET card == view[req[h].card]
                name == IF card.columnId \in DOMAIN cols
                          THEN cols[card.columnId].name ELSE NullStr
            IN /\ loc' = [loc EXCEPT ![h].card = card,
                                     ![h].fromColumn = name,
                                     ![h].toColumn = name]
               /\ Goto(h, next)
               /\ UNCHANGED <<cards, columns, tags, auth, client, log, tx, outcome>>

\* The statement that follows the lookups of router.put('/:id').
UpdateNextStep(card, col, pos) ==
  IF col # card.columnId THEN "u_findcol"
  ELSE IF pos # card.position THEN "u_shift" ELSE "u_write"

\* router.put('/:id'): the lookup of the card; currentCard.Column.name throws
\* a TypeError on a card whose column is gone.
UpdateFind(h) ==
  /\ pc[h] = "u_find"
  /\ LET view == ViewCards(h) IN
       IF /\ req[h].card \in DOMAIN view
          /\ view[req[h].card].columnId \notin DOMAIN ViewColumns(h)
         THEN Catch(h, "type_error")
         ELSE FindCard(h, IF req[h].card \in DOMAIN view
                            THEN UpdateNextStep(view[req[h].card], req[h].col, req[h].pos)
                            ELSE "done")
  /\ UNCHANGED <<nextCardId, nextColId, colWrites, req, pre>>

\* router.put('/:id'): Column.findByPk(column_id) of a changed column.
UpdateFindColumn(h) ==
  /\ pc[h] = "u_findcol"
  /\ LET view == ViewColumns(h) IN
       IF req[h].col \notin DOMAIN view
         THEN /\ RollbackAnd(h, "notfound")
              /\ UNCHANGED loc
         ELSE /\ loc' = [loc EXCEPT ![h].toColumn = view[req[h].col].name]
              /\ Goto(h, "u_shift")
              /\ UNCHANGED <<cards, columns, tags, auth, client, log, tx, outcome>>
  /\ UNCHANGED <<nextCardId, nextColId, colWrites, req, pre>>

\* UpdateShiftRows with the card at the destination left out of the move up.
UpdateShiftRowsExclusive(view, card, col, pos) ==
  IF col = card.columnId
    THEN (IF pos < card.position
            THEN MatchRange(view, col, pos + 1, card.position - 1)
            ELSE MatchRange(view, col, card.position + 1, pos))
    ELSE MatchFrom(view, col, pos)

\* router.put('/:id'): the rows of the first Card.increment.
UpdateShiftRows(view, card, col, pos) ==
  IF col = card.columnId
    THEN (IF pos < card.position
            THEN MatchRange(view, col, pos, card.position - 1)
            ELSE MatchRange(view, col, card.position + 1, pos))
    ELSE MatchFrom(view, col, pos)

\* by: 1 when making room (moving up, or entering a column), -1 moving down.
UpdateShiftBy(card, col, pos) ==
  IF col = card.columnId /\ ~(pos < card.position) THEN 0 - 1 ELSE 1

UpdateShift(h) ==
  /\ pc[h] = "u_shift"
  /\ LET view == ViewCards(h)
         ids == UpdateShiftRows(view, loc[h].card, req[h].col, req[h].pos)
     IN /\ ids \cap CardLocks(h) = {}
        /\ PutCards(h, "u_shift",
             Incremented(view, ids, UpdateShiftBy(loc[h].card, req[h].col, req[h].pos)))
  /\ Goto(h, IF req[h].col = loc[h].card.columnId THEN "u_write" ELSE "u_shift2")
  /\ UNCHANGED <<nextCardId, nextColId, colWrites, req, loc, outcome, pre>>

\* router.put('/:id'): close the gap in the old column.
UpdateShift2(h) ==
  /\ pc[h] = "u_shift2"
  /\ LET view == ViewCards(h)
         ids == MatchFrom(view, loc[h].card.columnId, loc[h].card.position + 1)
     IN /\ ids \cap CardLocks(h) = {}
        /\ PutCards(h, "u_shift2", Incremented(view, ids, 0 - 1))
  /\ Goto(h, "u_write")
  /\ UNCHANGED <<nextCardId, nextColId, colWrites, req, loc, outcome, pre>>

\* router.put('/:id'): currentCard.update({ title, columnId, position,
\* tagId }): an UPDATE, by id, of the fields whose value differs from the one
\* the handler read; an absent title or tag_id is no change; tag_id
\* references tags.
UpdateWrite(h) ==
  /\ pc[h] = "u_write"
  /\ IF req[h].tag # NoId /\ req[h].tag \notin DOMAIN ViewTags(h)
       THEN Catch(h, "foreign_key")
       ELSE LET view == ViewCards(h)
                ids == {req[h].card} \cap DOMAIN view
                old == loc[h].card
            IN /\ ids \cap CardLocks(h) = {}
               /\ PutCards(h, "u_write",
                    [i \in ids |->
                       [title |-> IF req[h].title \in {NullStr, old.title}
                                    THEN view[i].title ELSE req[h].title,
                        columnId |-> IF req[h].col = old.columnId
                                       THEN view[i].columnId ELSE req[h].col,
                        position |-> IF req[h].pos = old.position
                                       THEN view[i].position ELSE req[h].pos,
                        userId |-> view[i].userId,
                        tagId |-> IF req[h].tag \in {NoId, old.tagId}
                                    THEN view[i].tagId ELSE req[h].tag]])
               /\ Goto(h, "u_log")
               /\ UNCHANGED <<loc, outcome>>
  /\ UNCHANGED <<nextCardId, nextColId, colWrites, req, pre>>

\* router.put('/:id'): Log.create(...); cardTitle is allowNull: false.
UpdateLog(h) ==
  /\ pc[h] = "u_log"
  /\ IF req[h].title = NullStr
       THEN Catch(h, "validation")
       ELSE /\ PutLog(h, "u_log",
                 LogEntry(req[h].card, req[h].title,
                          ActionType(loc[h].card, req[h].col, req[h].pos),
                          loc[h].fromColumn, loc[h].toColumn,
                          loc[h].card.position, req[h].pos, req[h].user))
            /\ Goto(h, "commit")
            /\ UNCHANGED <<loc, outcome>>
  /\ UNCHANGED <<nextCardId, nextColId, colWrites, req, pre>>

\* router.put('/:id'): the Card.findByPk after the commit answers the card.
UpdateReread(h) ==
  /\ pc[h] = "u_reread"
  /\ Respond(h, "ok")
  /\ UNCHANGED <<cards, columns, tags, auth, client, log, nextCardId, nextColId, colWrites,
                 req, loc, tx, pre>>

\* router.put('/:id'): the Card.findByPk after the commit throws.  The catch
\* block calls rollback() on the finished transaction, which throws in its
\* turn: the handler ends without its 200; the caller is left with the
\* framework's error or no answer.
UpdateRereadFault(h) ==
  /\ pc[h] = "u_reread"
  /\ Respond(h, "unhandled")
  /\ loc' = [loc EXCEPT ![h].faultAt = "u_reread"]
  /\ UNCHANGED <<cards, columns, tags, auth, client, log, nextCardId, nextColId, colWrites,
                 req, tx, pre>>

DeleteFind(h) ==
  /\ pc[h] = "d_find"
  /\ FindCard(h, "d_destroy")
  /\ UNCHANGED <<nextCardId, nextColId, colWrites, req, pre>>

\* router.delete('/:id'): currentCard.destroy({ transaction }).
DeleteDestroy(h) ==
  /\ pc[h] = "d_destroy"
  /\ {req[h].card} \cap CardLocks(h) = {}
  /\ DelCards(h, "d_destroy", {req[h].card})
  /\ Goto(h, "d_shift")
  /\ UNCHANGED <<nextCardId, nextColId, colWrites, req, loc, outcome, pre>>

\* router.delete('/:id'): the rows that close the gap.
DeleteShiftRows(view, card) ==
  MatchFrom(view, card.columnId, card.position + 1)

DeleteShift(h) ==
  /\ pc[h] = "d_shift"
  /\ LET view == ViewCards(h)
         ids == DeleteShiftRows(view, loc[h].card)
     IN /\ ids \cap CardLocks(h) = {}
        /\ PutCards(h, "d_shift", Incremented(view, ids, 0 - 1))
  /\ Goto(h, "d_log")
  /\ UNCHANGED <<nextCardId, nextColId, colWrites, req, loc, outcome, pre>>

\* router.delete('/:id'): Log.create({ cardId: id, ... actionType:
\* 'deleted' ... }).  currentCard.Column.name throws a TypeError on a card
\* whose column is gone; card_id references cards, and the card named is the
\* one the handler has destroyed two statements earlier.
DeleteLog(h) ==
  /\ pc[h] = "d_log"
  /\ IF loc[h].fromColumn = NullStr
       THEN Catch(h, "type_error")
       ELSE IF req[h].card \notin DOMAIN ViewCards(h)
       THEN Catch(h, "foreign_key")
       ELSE /\ PutLog(h, "d_log",
                 LogEntry(req[h].card, loc[h].card.title, "deleted",
                          loc[h].fromColumn, NullStr, NoPos, NoPos, req[h].user))
            /\ Goto(h, "commit")
            /\ UNCHANGED <<loc, outcome>>
  /\ UNCHANGED <<nextCardId, nextColId, colWrites, req, pre>>

IsColumnMutation(kind) == kind \in {"updateContainer", "deleteContainer"}

\* await transaction.commit(): the writes of the transaction reach the tables.
Commit(h) ==
  /\ pc[h] = "commit"
  /\ cards' = ViewCards(h)
  /\ columns' = ViewColumns(h)
  /\ tags' = ViewTags(h)
  /\ UNCHANGED <<auth, client>>
  /\ log' = SetNull(log, tx[h].logN) \o tx[h].logA
  /\ tx' = [tx EXCEPT ![h] = NoTx]
  /\ colWrites' = IF IsColumnMutation(req[h].kind) THEN colWrites + 1 ELSE colWrites
  /\ IF req[h].kind = "updateItem"
       THEN Goto(h, "u_reread") /\ UNCHANGED outcome
       ELSE Respond(h, "ok")
  /\ UNCHANGED <<nextCardId, nextColId, req, loc, pre>>

\* The statements of the handlers that run inside a try block with an open
\* transaction.
FaultSteps ==
  {"c_max", "c_insert", "c_findcol", "c_log", "u_find", "u_findcol", "u_shift",
   "u_shift2", "u_write", "u_log", "d_find", "d_destroy", "d_shift", "d_log",
   "uc_find", "uc_shift", "uc_write", "dc_find", "dc_cards", "dc_destroy",
   "dc_shift", "dt_find", "dt_cards", "dt_destroy"}

\* A statement inside the try block raises a storage error: the catch block
\* rolls the transaction back and answers 500.
Fault(h) ==
  /\ pc[h] \in FaultSteps
  /\ Catch(h, pc[h])
  /\ UNCHANGED <<nextCardId, nextColId, colWrites, req, pre>>

\* The handler has returned; its locals are gone.
Return(h) ==
  /\ pc[h] = "done"
  /\ pc' = [pc EXCEPT ![h] = "idle"]
  /\ req' = [req EXCEPT ![h] = NoReq]
  /\ loc' = [loc EXCEPT ![h] = NoLoc]
  /\ outcome' = [outcome EXCEPT ![h] = "none"]
  /\ pre' = [pre EXCEPT ![h] = NoPre]
  /\ UNCHANGED <<cards, columns, tags, auth, client, log, nextCardId, nextColId, colWrites, tx>>

\* ------------------------------------------------------------- columns

CreateContainerRequests ==
  {[NoReq EXCEPT !.kind = "createContainer", !.user = u, !.name = n] :
     u \in Users, n \in Names \cup {NullStr}}

\* The body of a column update: a name or none, a position or none; a
\* position given may be 0, which reads as NoPos.
UpdateContainerRequests ==
  {r \in {[NoReq EXCEPT !.kind = "updateContainer", !.user = u, !.col = c,
                        !.name = n, !.pos = p, !.posGiven = g] :
            u \in Users, c \in ColIds, n \in Names \cup {NullStr},
            p \in {NoPos} \cup 1..MaxColPos, g \in BOOLEAN} :
     r.pos # NoPos => r.posGiven}

DeleteContainerRequests ==
  {[NoReq EXCEPT !.kind = "deleteContainer", !.user = u, !.col = c] :
     u \in Users, c \in ColIds}

ContainerRequests ==
  CreateContainerRequests \cup UpdateContainerRequests \cup DeleteContainerRequests

\* A column request arrives while no other request is being served.
BeginContainer(h) ==
  /\ \A g \in Handlers : pc[g] = "idle"
  /\ colWrites < MaxColOps
  /\ \E r \in ContainerRequests :
       /\ r.kind = "createContainer" => nextColId <= MaxCols
       /\ Start(h, r, FirstStep(r.kind), r.kind # "createContainer")

\* columns router.post('/'): Column.max('position') over every column.
CreateContainerMax(view, user) ==
  MaxPosition({view[id].position : id \in DOMAIN view})

ContainerCreateMax(h) ==
  /\ pc[h] = "cc_max"
  /\ loc' = [loc EXCEPT
       ![h].position = CreateContainerMax(ViewColumns(h), req[h].user) + 1]
  /\ Goto(h, "cc_insert")
  /\ UNCHANGED <<cards, columns, tags, auth, client, log, nextCardId, nextColId, colWrites,
                 req, tx, outcome, pre>>

\* columns router.post('/'): Column.create(...), outside any transaction;
\* name is allowNull: false.
ContainerCreateInsert(h) ==
  /\ pc[h] = "cc_insert"
  /\ IF req[h].name = NullStr
       THEN /\ Respond(h, "error")
            /\ loc' = [loc EXCEPT ![h].faultAt = "validation"]
            /\ UNCHANGED <<cards, columns, tags, auth, client, log, tx, nextColId, colWrites>>
       ELSE /\ PutColumns(h, "cc_insert",
                 nextColId :> [name |-> req[h].name, position |-> loc[h].position,
                               userId |-> req[h].user])
            /\ loc' = [loc EXCEPT ![h].newId = nextColId]
            /\ nextColId' = nextColId + 1
            /\ colWrites' = colWrites + 1
            /\ Respond(h, "ok")
  /\ UNCHANGED <<nextCardId, req, pre>>

\* columns router.post('/'): a statement throws; the catch block answers 500.
ContainerCreateFault(h) ==
  /\ pc[h] \in {"cc_max", "cc_insert"}
  /\ Respond(h, "error")
  /\ loc' = [loc EXCEPT ![h].faultAt = pc[h]]
  /\ UNCHANGED <<cards, columns, tags, auth, client, log, nextCardId, nextColId, colWrites,
                 req, tx, pre>>

\* FindColumn without the check of the owner.
FindColumnNoOwner(h, next) ==
  LET view == ViewColumns(h) IN
    IF req[h].col \notin DOMAIN view
      THEN /\ RollbackAnd(h, "notfound")
           /\ UNCHANGED loc
      ELSE /\ loc' = [loc EXCEPT ![h].column = view[req[h].col]]
           /\ Goto(h, next)
           /\ UNCHANGED <<cards, columns, tags, auth, client, log, tx, outcome>>

\* columns router.put('/:id'), router.delete('/:id'): Column.findByPk(id),
\* 404 for no column, 403 for another user's column.
FindColumn(h, next) ==
  LET view == ViewColumns(h) IN
    IF req[h].col \notin DOMAIN view
      THEN /\ RollbackAnd(h, "notfound")
           /\ UNCHANGED loc
      ELSE IF view[req[h].col].userId # NoUser /\ view[req[h].col].userId # req[h].user
             THEN /\ RollbackAnd(h, "forbidden")
                  /\ UNCHANGED loc
             ELSE /\ loc' = [loc EXCEPT ![h].column = view[req[h].col]]
                  /\ Goto(h, next)
                  /\ UNCHANGED <<cards, columns, tags, auth, client, log, tx, outcome>>

ContainerUpdateFind(h) ==
  /\ pc[h] = "uc_find"
  /\ LET view == ViewColumns(h) IN
       FindColumn(h, IF /\ req[h].col \in DOMAIN view
                        /\ req[h].pos # NoPos
                        /\ req[h].pos # view[req[h].col].position
                       THEN "uc_shift" ELSE "uc_write")
  /\ UNCHANGED <<nextCardId, nextColId, colWrites, req, pre>>

\* ContainerShiftRows over the rows of the owner of the column only.
ContainerShiftRowsOfOwner(view, column, pos) ==
  IF pos < column.position
    THEN {id \in DOMAIN view : /\ view[id].userId = column.userId
                               /\ pos <= view[id].position
                               /\ view[id].position < column.position}
    ELSE {id \in DOMAIN view : /\ view[id].userId = column.userId
                               /\ column.position < view[id].position
                               /\ view[id].position <= pos}

\* columns router.put('/:id'): the rows of Column.increment, of every owner.
ContainerShiftRows(view, column, pos) ==
  IF pos < column.position
    THEN {id \in DOMAIN view : pos <= view[id].position
                               /\ view[id].position < column.position}
    ELSE {id \in DOMAIN view : column.position < view[id].position
                               /\ view[id].position <= pos}

ContainerUpdateShift(h) ==
  /\ pc[h] = "uc_shift"
  /\ LET view == ViewColumns(h)
         ids == ContainerShiftRows(view, loc[h].column, req[h].pos)
     IN /\ ids \cap ColumnLocks(h) = {}
        /\ PutColumns(h, "uc_shift",
             Incremented(view, ids,
               IF req[h].pos < loc[h].column.position THEN 1 ELSE 0 - 1))
  /\ Goto(h, "uc_write")
  /\ UNCHANGED <<nextCardId, nextColId, colWrites, req, loc, outcome, pre>>

\* columns router.put('/:id'): column.update({ name: name || column.name,
\* position: position || column.position }).
ContainerUpdateWrite(h) ==
  /\ pc[h] = "uc_write"
  /\ LET view == ViewColumns(h)
         ids == {req[h].col} \cap DOMAIN view
     IN /\ ids \cap ColumnLocks(h) = {}
        /\ PutColumns(h, "uc_write",
             [i \in ids |->
                [name |-> IF req[h].name = NullStr THEN loc[h].column.name
                          ELSE req[h].name,
                 position |-> IF req[h].pos = NoPos THEN loc[h].column.position
                              ELSE req[h].pos,
                 userId |-> loc[h].column.userId]])
  /\ Goto(h, "commit")
  /\ UNCHANGED <<nextCardId, nextColId, colWrites, req, loc, outcome, pre>>

ContainerDeleteFind(h) ==
  /\ pc[h] = "dc_find"
  /\ FindColumn(h, "dc_cards")
  /\ UNCHANGED <<nextCardId, nextColId, colWrites, req, pre>>

\* columns router.delete('/:id'): Card.destroy({ where: { columnId: id } }).
ContainerDeleteCards(h) ==
  /\ pc[h] = "dc_cards"
  /\ LET view == ViewCards(h)
         ids == {i \in DOMAIN view : view[i].columnId = req[h].col}
     IN /\ ids \cap CardLocks(h) = {}
        /\ DelCards(h, "dc_cards", ids)
  /\ Goto(h, "dc_destroy")
  /\ UNCHANGED <<nextCardId, nextColId, colWrites, req, loc, outcome, pre>>

\* columns router.delete('/:id'): column.destroy({ transaction }).
ContainerDeleteDestroy(h) ==
  /\ pc[h] = "dc_destroy"
  /\ {req[h].col} \cap ColumnLocks(h) = {}
  /\ DelColumns(h, "dc_destroy", {req[h].col})
  /\ Goto(h, "dc_shift")
  /\ UNCHANGED <<nextCardId, nextColId, colWrites, req, loc, outcome, pre>>

\* ContainerDeleteShiftRows that spares the column next to the deleted one.
ContainerDeleteShiftRowsBeyond(view, column) ==
  {i \in DOMAIN view : column.position + 1 < view[i].position}

\* columns router.delete('/:id'): the rows of Column.increment, of every
\* owner: position > column.position.
ContainerDeleteShiftRows(view, column) ==
  {i \in DOMAIN view : column.position < view[i].position}

\* columns router.delete('/:id'): close the gap in positions.
ContainerDeleteShift(h) ==
  /\ pc[h] = "dc_shift"
  /\ LET view == ViewColumns(h)
         ids == ContainerDeleteShiftRows(view, loc[h].column)
     IN /\ ids \cap ColumnLocks(h) = {}
        /\ PutColumns(h, "dc_shift", Incremented(view, ids, 0 - 1))
  /\ Goto(h, "commit")
  /\ UNCHANGED <<nextCardId, nextColId, colWrites, req, loc, outcome, pre>>

\* ------------------------------------------------------------- tags

DeleteTagRequests ==
  {[NoReq EXCEPT !.kind = "deleteTag", !.user = u, !.tag = t] :
     u \in Users, t \in TagIds}

\* tags router.delete('/:id'): Tag.findByPk(id), 404 for no tag, 403 for
\* another user's tag.
TagDeleteFind(h) ==
  /\ pc[h] = "dt_find"
  /\ LET view == ViewTags(h) IN
       IF req[h].tag \notin DOMAIN view
         THEN RollbackAnd(h, "notfound")
         ELSE IF view[req[h].tag].userId # NoUser
                   /\ view[req[h].tag].userId # req[h].user
                THEN RollbackAnd(h, "forbidden")
                ELSE /\ Goto(h, "dt_cards")
                     /\ UNCHANGED <<cards, columns, tags, auth, client, log, tx, outcome>>
  /\ UNCHANGED <<nextCardId, nextColId, colWrites, req, loc, pre>>

\* tags router.delete('/:id'): Card.update({ tagId: null },
\* { where: { tagId: id }, transaction }), on the cards of every owner.
TagDeleteCards(h) ==
  /\ pc[h] = "dt_cards"
  /\ LET rows == Untagged(ViewCards(h), {req[h].tag})
     IN /\ (DOMAIN rows) \cap CardLocks(h) = {}
        /\ PutCards(h, "dt_cards", rows)
  /\ Goto(h, "dt_destroy")
  /\ UNCHANGED <<nextCardId, nextColId, colWrites, req, loc, outcome, pre>>

\* tags router.delete('/:id'): tag.destroy({ transaction }).
TagDeleteDestroy(h) ==
  /\ pc[h] = "dt_destroy"
  /\ DelTags(h, "dt_destroy", {req[h].tag})
  /\ Goto(h, "commit")
  /\ UNCHANGED <<nextCardId, nextColId, colWrites, req, loc, outcome, pre>>

\* ------------------------------------------------------------- systems

ItemStep(h) ==
  \/ CreateMax(h) \/ CreateInsert(h) \/ CreateFindColumn(h) \/ CreateLog(h)
  \/ UpdateFind(h) \/ UpdateFindColumn(h) \/ UpdateShift(h) \/ UpdateShift2(h)
  \/ UpdateWrite(h) \/ UpdateLog(h) \/ UpdateReread(h) \/ UpdateRereadFault(h)
  \/ DeleteFind(h) \/ DeleteDestroy(h) \/ DeleteShift(h) \/ DeleteLog(h)
  \/ Commit(h) \/ Fault(h) \/ Return(h)

\* The card handlers, one request at a time.
Next == BeginItem(1) \/ ItemStep(1)

Spec == Init /\ [][Next]_vars

ContainerStep(h) ==
  \/ ContainerCreateMax(h) \/ ContainerCreateInsert(h) \/ ContainerCreateFault(h)
  \/ ContainerUpdateFind(h) \/ ContainerUpdateShift(h) \/ ContainerUpdateWrite(h)
  \/ ContainerDeleteFind(h) \/ ContainerDeleteCards(h)
  \/ ContainerDeleteDestroy(h) \/ ContainerDeleteShift(h)
  \/ Commit(h) \/ Fault(h) \/ Return(h)

\* The column handlers, one request at a time.
NextColumns == BeginContainer(1) \/ ContainerStep(1)

SpecColumns == Init /\ [][NextColumns]_vars

\* The board after user 1 has created two cards in column 1 (two runs of
\* router.post('/') from Init), where the runs of two concurrent handlers start.
ConcCards ==
  (1 :> [title |-> "T", columnId |-> 1, position |-> 1, userId |-> 1,
         tagId |-> NoId]) @@
  (2 :> [title |-> "T", columnId |-> 1, position |-> 2, userId |-> 1,
         tagId |-> NoId])

ConcLog ==
  << LogEntry(1, "T", "created", NullStr, "Backlog", NoPos, 1, 1),
     LogEntry(2, "T", "created", NullStr, "Backlog", NoPos, 2, 1) >>

InitConc ==
  /\ cards = ConcCards
  /\ columns = SeedColumns
  /\ tags = SeedTags
  /\ InitAuth
  /\ log = ConcLog
  /\ nextCardId = 3
  /\ nextColId = 4
  /\ colWrites = 0
  /\ pc = [h \in Handlers |-> "idle"]
  /\ req = [h \in Handlers |-> NoReq]
  /\ loc = [h \in Handlers |-> NoLoc]
  /\ tx = [h \in Handlers |-> NoTx]
  /\ outcome = [h \in Handlers |-> "none"]
  /\ pre = [h \in Handlers |-> NoPre]

\* The card requests of user 1 that carry a title.
ConcItemRequests == {r \in ItemRequests : r.user = 1 /\ (r.kind = "deleteItem" \/ r.title # NullStr)}

\* A card request arrives at a free handler, possibly while the other handler
\* is serving one.
BeginItemConc(h) ==
  /\ pc[h] = "idle"
  /\ Len(log) + Cardinality({g \in Handlers : tx[g].open}) < Len(ConcLog) + MaxConcOps
  /\ \E r \in ConcItemRequests :
       /\ r.kind = "createItem" => nextCardId <= MaxConcCards
       /\ Start(h, r, FirstStep(r.kind), TRUE)

\* The card handlers, two requests at a time, no statement failing.
ConcStep(h) ==
  \/ CreateMax(h) \/ CreateInsert(h) \/ CreateFindColumn(h) \/ CreateLog(h)
  \/ UpdateFind(h) \/ UpdateFindColumn(h) \/ UpdateShift(h) \/ UpdateShift2(h)
  \/ UpdateWrite(h) \/ UpdateLog(h) \/ UpdateReread(h)
  \/ DeleteFind(h) \/ DeleteDestroy(h) \/ DeleteShift(h) \/ DeleteLog(h)
  \/ Commit(h) \/ Return(h)

NextConc == \E h \in Handlers : BeginItemConc(h) \/ ConcStep(h)

SpecConc == InitConc /\ [][NextConc]_vars

\* The column create requests.
ConcContainerRequests == CreateContainerRequests

\* A createContainer request arrives at a free handler, possibly while the
\* other handler is serving one.
BeginContainerConc(h) ==
  /\ pc[h] = "idle"
  /\ nextColId + Cardinality({g \in Handlers : pc[g] \in {"cc_max", "cc_insert"}})
       <= MaxConcCols
  /\ \E r \in ConcContainerRequests : Start(h, r, FirstStep(r.kind), FALSE)

ConcContainerStep(h) ==
  \/ ContainerCreateMax(h) \/ ContainerCreateInsert(h) \/ ContainerCreateFault(h)
  \/ Return(h)

\* The column create handler, two requests at a time.
NextConcColumns == \E h \in Handlers : BeginContainerConc(h) \/ ConcContainerStep(h)

SpecConcColumns == Init /\ [][NextConcColumns]_vars

\* ------------------------------------------------------------- log reads

\* The columns of table logs, as sequelize.sync() builds them from the field
\* of each attribute of models/Log.js.
LogColumns ==
  {"id", "card_id", "card_title", "action_type", "from_column", "to_column",
   "from_position", "to_position", "user_id", "created_at"}

\* The column names the SELECT of router.get('/readable') quotes.
ReadableColumns ==
  {"id", "cardTitle", "created_at", "actionType", "toColumn", "fromColumn",
   "userId"}

RECURSIVE Joined(_)
\* a || b || ... of SQL: NULL when a part is NULL.
Joined(parts) ==
  IF parts = <<>> THEN ""
  ELSE IF Head(parts) = NullStr \/ Joined(Tail(parts)) = NullStr THEN NullStr
  ELSE Head(parts) \o Joined(Tail(parts))

\* router.get('/readable'): the CASE that computes description.
Description(e) ==
  CASE e.actionType = "created" ->
         Joined(<<"\"", e.cardTitle, "\" was created in \"", e.toColumn, "\"">>)
    [] e.actionType = "deleted" ->
         Joined(<<"\"", e.cardTitle, "\" was deleted from \"", e.fromColumn, "\"">>)
    [] e.actionType = "moved_column" ->
         Joined(<<"\"", e.cardTitle, "\" was moved from \"", e.fromColumn,
                  "\" to \"", e.toColumn, "\"">>)
    [] e.actionType = "moved_up" ->
         Joined(<<"\"", e.cardTitle, "\" was moved up within the column \"",
                  e.fromColumn, "\"">>)
    [] e.actionType = "moved_down" ->
         Joined(<<"\"", e.cardTitle, "\" was moved down within the column \"",
                  e.fromColumn, "\"">>)
    [] OTHER -> Joined(<<"\"", e.cardTitle, "\" was updated">>)

RECURSIVE OwnEntries(_, _)
\* WHERE "userId" = :userId ORDER BY "created_at" DESC: the entries of user,
\* the latest first.
OwnEntries(entries, user) ==
  IF entries = <<>> THEN <<>>
  ELSE LET rest == OwnEntries(SubSeq(entries, 1, Len(entries) - 1), user)
           last == entries[Len(entries)]
       IN IF last.userId = user THEN <<last>> \o rest ELSE rest

\* The rows router.get('/readable') selects.
ReadableRows(entries, user) ==
  LET own == OwnEntries(entries, user)
  IN [n \in DOMAIN own |->
        [cardTitle |-> own[n].cardTitle, description |-> Description(own[n])]]

\* A GET /readable arrives while no other request is being served.
BeginReadable(h) ==
  /\ \A g \in Handlers : pc[g] = "idle"
  /\ \E u \in Users :
       Start(h, [NoReq EXCEPT !.kind = "renderNarratives", !.user = u],
             FirstStep("renderNarratives"), FALSE)

\* router.get('/readable'): sequelize.query(SELECT ...), res.json(logs); a
\* quoted name that is no column of logs is an error of the query, answered
\* 500 by the catch block.
ReadableQuery(h) ==
  /\ pc[h] = "r_query"
  /\ IF ReadableColumns \subseteq LogColumns
       THEN /\ loc' = [loc EXCEPT ![h].rows = ReadableRows(log, req[h].user)]
            /\ Respond(h, "ok")
       ELSE /\ loc' = [loc EXCEPT ![h].faultAt = "undefined_column"]
            /\ Respond(h, "error")
  /\ UNCHANGED <<cards, columns, tags, auth, client, log, nextCardId, nextColId, colWrites,
                 req, tx, pre>>

\* router.get('/card/:cardId'): where: { cardId, userId },
\* order: [['created_at', 'DESC']].
ByItemRows(entries, user, card) ==
  SelectSeq(OwnEntries(entries, user), LAMBDA e : e.cardId = card)

\* A GET /card/:cardId arrives while no other request is being served.
BeginByItem(h) ==
  /\ \A g \in Handlers : pc[g] = "idle"
  /\ \E u \in Users, c \in CardIds :
       Start(h, [NoReq EXCEPT !.kind = "listByItem", !.user = u, !.card = c],
             FirstStep("listByItem"), FALSE)

\* router.get('/card/:cardId'): Log.findAll(...), res.json(logs).
ByItemQuery(h) ==
  /\ pc[h] = "bi_query"
  /\ loc' = [loc EXCEPT ![h].rows = ByItemRows(log, req[h].user, req[h].card)]
  /\ Respond(h, "ok")
  /\ UNCHANGED <<cards, columns, tags, auth, client, log, nextCardId, nextColId, colWrites,
                 req, tx, pre>>

\* ------------------------------------------------------------- history

\* Timestamps are milliseconds since the epoch, as a JavaScript Date holds
\* them; created_at of a log row is the Date of its insert.
DayMs == 24 * 60 * 60 * 1000

\* router.get('/summary'): 7 * 24 * 60 * 60 * 1000.
WeekMs == 7 * DayMs

\* router.get('/summary'): limit: 20.
SummaryLimit == 20

\* TO_CHAR("created_at", 'YYYY-MM-DD'): the calendar day of a timestamp, in
\* the time zone of the connection, which sequelize sets to +00:00.
Day(t) == t \div DayMs

\* new Date(`${date}T00:00:00.000Z`) and new Date(`${date}T23:59:59.999Z`).
DayStart(d) == d * DayMs
DayEnd(d) == d * DayMs + (23 * 60 * 60 * 1000 + 59 * 60 * 1000 + 59 * 1000 + 999)

\* The column names the SELECT of router.get('/') quotes.
GroupedColumns ==
  {"created_at", "id", "cardId", "cardTitle", "actionType", "fromColumn",
   "toColumn", "fromPosition", "toPosition", "userId"}

RECURSIVE Descending(_)
\* ORDER BY date DESC over a set of days.
Descending(S) ==
  IF S = {} THEN <<>> ELSE <<Max(S)>> \o Descending(S \ {Max(S)})

RECURSIVE Selected(_, _, _)
\* The entries of a sequence whose created_at lies in lo..hi, in order.
Selected(entries, lo, hi) ==
  IF entries = <<>> THEN <<>>
  ELSE LET first == Head(entries)
           rest == Selected(Tail(entries), lo, hi)
       IN IF lo <= first.created_at /\ first.created_at <= hi
            THEN <<first>> \o rest ELSE rest

RECURSIVE Since(_, _)
\* The entries of a sequence whose created_at is lo or later, in order.
Since(entries, lo) ==
  IF entries = <<>> THEN <<>>
  ELSE LET first == Head(entries)
           rest == Since(Tail(entries), lo)
       IN IF lo <= first.created_at THEN <<first>> \o rest ELSE rest

\* SummaryRows without the created_at condition of its where.
SummaryRowsUnbounded(entries, user, now) ==
  LET own == OwnEntries(entries, user)
  IN SubSeq(own, 1, IF Len(own) < SummaryLimit THEN Len(own) ELSE SummaryLimit)

\* router.get('/summary'): Log.findAll({ where: { userId, created_at: { gte:
\* now - 7 days } }, order: created_at DESC, limit: 20 }).
SummaryRows(entries, user, now) ==
  LET own == OwnEntries(entries, user)
      recent == Since(own, now - WeekMs)
  IN SubSeq(recent, 1, IF Len(recent) < SummaryLimit THEN Len(recent) ELSE SummaryLimit)

\* router.get('/date/:date'): Log.findAll({ where: { userId, created_at: {
\* gte: start of the day, lt: 23:59:59.999 of the day } }, order: DESC }).
ByDateRows(entries, user, d) ==
  Selected(OwnEntries(entries, user), DayStart(d), DayEnd(d) - 1)

\* router.get('/'): one row for each day, the latest day first, with the
\* entries of the day, the latest first.
GroupedRows(entries, user) ==
  LET own == OwnEntries(entries, user)
      days == Descending({Day(own[n].created_at) : n \in DOMAIN own})
  IN [k \in DOMAIN days |->
        [date |-> days[k],
         logs |-> Selected(own, days[k] * DayMs, days[k] * DayMs + DayMs - 1)]]

\* The timestamps of the rows drawn: the first and last millisecond of day 0
\* and of day 1, and a millisecond inside day 1.
Stamps == {0, DayMs - 1, DayMs, DayMs + 1, 2 * DayMs - 1}

\* The times at which a summary is asked: a week after the last millisecond
\* of day 0, after the first of day 1, and a millisecond later.
Nows == {WeekMs + DayMs - 1, WeekMs + DayMs, WeekMs + DayMs + 1}

\* A row of logs with its created_at.
Stamped(e, t) ==
  [cardId |-> e.cardId, cardTitle |-> e.cardTitle, actionType |-> e.actionType,
   fromColumn |-> e.fromColumn, toColumn |-> e.toColumn,
   fromPosition |-> e.fromPosition, toPosition |-> e.toPosition,
   userId |-> e.userId, created_at |-> t]

\* Logs of one row of every action kind, with every combination of name
\* snapshots the nullable columns from_column and to_column admit.
NarrativeLogs ==
  {<<Stamped(LogEntry(1, "T", a, f, t, NoPos, NoPos, u), 0)>> :
     a \in {"created", "updated", "moved_column", "moved_up", "moved_down", "deleted"},
     f \in {NullStr, "Backlog"}, t \in {NullStr, "Done"}, u \in Users}

\* Logs of up to MaxStamped rows, of any owners, their timestamps in the
\* order of their inserts.
StampedLogs ==
  UNION {{lg \in [1..n -> {Stamped(LogEntry(1, "T", "created", NullStr, "Backlog", NoPos, 1, u), t) :
                             u \in Users, t \in Stamps}] :
            \A i \in 1..(n - 1) : lg[i].created_at <= lg[i + 1].created_at} :
         n \in 0..MaxStamped}

\* Logs of up to MaxSummaryLog rows inserted a millisecond apart from the last
\* millisecond of day 0 on, every second or only the last of them owned by
\* user 2.
SummaryLogs ==
  {[i \in 1..n |->
      Stamped(LogEntry(1, "T", "created", NullStr, "Backlog", NoPos, 1,
                       IF i % m = 0 THEN 2 ELSE 1), DayMs - 2 + i)] :
     n \in (SummaryLimit - 1)..MaxSummaryLog, m \in {2, MaxSummaryLog}}

\* The table logs holding rows its columns admit, with their timestamps.
InitHistory ==
  /\ cards = EmptyTable
  /\ columns = SeedColumns
  /\ tags = SeedTags
  /\ InitAuth
  /\ log \in NarrativeLogs \cup StampedLogs \cup SummaryLogs
  /\ nextCardId = 1
  /\ nextColId = 4
  /\ colWrites = 0
  /\ pc = [h \in Handlers |-> "idle"]
  /\ req = [h \in Handlers |-> NoReq]
  /\ loc = [h \in Handlers |-> NoLoc]
  /\ tx = [h \in Handlers |-> NoTx]
  /\ outcome = [h \in Handlers |-> "none"]
  /\ pre = [h \in Handlers |-> NoPre]

HistoryRequests ==
  {[NoReq EXCEPT !.kind = "renderNarratives", !.user = u] : u \in Users} \cup
  {[NoReq EXCEPT !.kind = "listGrouped", !.user = u] : u \in Users} \cup
  {[NoReq EXCEPT !.kind = "listByDate", !.user = u, !.day = d] :
     u \in Users, d \in 0..MaxDay} \cup
  {[NoReq EXCEPT !.kind = "recentSummary", !.user = u, !.now = t] :
     u \in Users, t \in Nows}

\* A read of the log arrives while no other request is being served.
BeginHistory(h) ==
  /\ \A g \in Handlers : pc[g] = "idle"
  /\ \E r \in HistoryRequests : Start(h, r, FirstStep(r.kind), FALSE)

\* router.get('/'): sequelize.query(SELECT ... GROUP BY ...), res.json(logs);
\* a quoted name that is no column of logs is an error of the query.
GroupedQuery(h) ==
  /\ pc[h] = "g_query"
  /\ IF GroupedColumns \subseteq LogColumns
       THEN /\ loc' = [loc EXCEPT ![h].rows = GroupedRows(log, req[h].user)]
            /\ Respond(h, "ok")
       ELSE /\ loc' = [loc EXCEPT ![h].faultAt = "undefined_column"]
            /\ Respond(h, "error")
  /\ UNCHANGED <<cards, columns, tags, auth, client, log, nextCardId, nextColId, colWrites,
                 req, tx, pre>>

\* router.get('/date/:date'): Log.findAll(...), res.json(logs).
ByDateQuery(h) ==
  /\ pc[h] = "bd_query"
  /\ loc' = [loc EXCEPT ![h].rows = ByDateRows(log, req[h].user, req[h].day)]
  /\ Respond(h, "ok")
  /\ UNCHANGED <<cards, columns, tags, auth, client, log, nextCardId, nextColId, colWrites,
                 req, tx, pre>>

\* router.get('/summary'): Log.findAll(...), res.json(logs).
SummaryQuery(h) ==
  /\ pc[h] = "s_query"
  /\ loc' = [loc EXCEPT ![h].rows = SummaryRows(log, req[h].user, req[h].now)]
  /\ Respond(h, "ok")
  /\ UNCHANGED <<cards, columns, tags, auth, client, log, nextCardId, nextColId, colWrites,
                 req, tx, pre>>

\* The reads of the log, one request at a time.
NextHistory ==
  \/ BeginHistory(1)
  \/ ReadableQuery(1) \/ GroupedQuery(1) \/ ByDateQuery(1) \/ SummaryQuery(1)
  \/ Return(1)

SpecHistory == InitHistory /\ [][NextHistory]_vars

\* ------------------------------------------------------------- the board

\* A card request arrives while no other request is being served.
BeginItemBoard(h) ==
  /\ \A g \in Handlers : pc[g] = "idle"
  /\ Len(log) < MaxBoardLog
  /\ \E r \in ItemRequests :
       /\ r.kind = "createItem" => nextCardId <= MaxCards
       /\ Start(h, r, FirstStep(r.kind), TRUE)

\* A column request arrives while no other request is being served.
BeginContainerBoard(h) ==
  /\ \A g \in Handlers : pc[g] = "idle"
  /\ colWrites < MaxBoardColOps
  /\ \E r \in ContainerRequests :
       /\ r.kind = "createContainer" => nextColId <= MaxCols
       /\ Start(h, r, FirstStep(r.kind), r.kind # "createContainer")

BoardStep(h) ==
  \/ CreateMax(h) \/ CreateInsert(h) \/ CreateFindColumn(h) \/ CreateLog(h)
  \/ UpdateFind(h) \/ UpdateFindColumn(h) \/ UpdateShift(h) \/ UpdateShift2(h)
  \/ UpdateWrite(h) \/ UpdateLog(h) \/ UpdateReread(h) \/ UpdateRereadFault(h)
  \/ DeleteFind(h) \/ DeleteDestroy(h) \/ DeleteShift(h) \/ DeleteLog(h)
  \/ ContainerCreateMax(h) \/ ContainerCreateInsert(h) \/ ContainerCreateFault(h)
  \/ ContainerUpdateFind(h) \/ ContainerUpdateShift(h) \/ ContainerUpdateWrite(h)
  \/ ContainerDeleteFind(h) \/ ContainerDeleteCards(h)
  \/ ContainerDeleteDestroy(h) \/ ContainerDeleteShift(h)
  \/ ReadableQuery(h) \/ ByItemQuery(h)
  \/ Commit(h) \/ Fault(h) \/ Return(h)

\* The card handlers, the column handlers and the reads of the log that take
\* no date, one request at a time.
NextBoard ==
  \/ BeginItemBoard(1) \/ BeginContainerBoard(1) \/ BeginReadable(1)
  \/ BeginByItem(1)
  \/ BoardStep(1)

SpecBoard == Init /\ [][NextBoard]_vars

\* The board after user 1 has created a column (router.post('/') of the
\* columns from Init) and a card in it, and user 2 a card in column 1, both
\* cards with tag 1.
OwnedColumns ==
  SeedColumns @@ (4 :> [name |-> "X", position |-> 4, userId |-> 1])

OwnedCards ==
  (1 :> [title |-> "T", columnId |-> 4, position |-> 1, userId |-> 1,
         tagId |-> 1]) @@
  (2 :> [title |-> "T", columnId |-> 1, position |-> 1, userId |-> 2,
         tagId |-> 1])

OwnedLog ==
  << LogEntry(1, "T", "created", NullStr, "X", NoPos, 1, 1),
     LogEntry(2, "T", "created", NullStr, "Backlog", NoPos, 1, 2) >>

InitOwned ==
  /\ cards = OwnedCards
  /\ columns = OwnedColumns
  /\ tags = SeedTags
  /\ InitAuth
  /\ log = OwnedLog
  /\ nextCardId = 3
  /\ nextColId = 5
  /\ colWrites = 0
  /\ pc = [h \in Handlers |-> "idle"]
  /\ req = [h \in Handlers |-> NoReq]
  /\ loc = [h \in Handlers |-> NoLoc]
  /\ tx = [h \in Handlers |-> NoTx]
  /\ outcome = [h \in Handlers |-> "none"]
  /\ pre = [h \in Handlers |-> NoPre]

\* A column request arrives at the board with a column of user 1 while no
\* other request is being served.
BeginContainerOwned(h) ==
  /\ \A g \in Handlers : pc[g] = "idle"
  /\ colWrites < MaxOwnedOps
  /\ \E r \in ContainerRequests :
       /\ r.kind = "createContainer" => nextColId <= MaxOwnedCols
       /\ Start(h, r, FirstStep(r.kind), r.kind # "createContainer")

\* The column handlers, one request at a time, on the board with a column
\* of user 1.
NextOwned == BeginContainerOwned(1) \/ ContainerStep(1)

SpecOwned == InitOwned /\ [][NextOwned]_vars

\* The tags after user 1 has created one (router.post('/') of the tags).
OwnedTags ==
  SeedTags @@ (3 :> [name |-> "X", userId |-> 1])

InitTags ==
  /\ cards = EmptyTable
  /\ columns = SeedColumns
  /\ tags = OwnedTags
  /\ InitAuth
  /\ log = <<>>
  /\ nextCardId = 1
  /\ nextColId = 4
  /\ colWrites = 0
  /\ pc = [h \in Handlers |-> "idle"]
  /\ req = [h \in Handlers |-> NoReq]
  /\ loc = [h \in Handlers |-> NoLoc]
  /\ tx = [h \in Handlers |-> NoTx]
  /\ outcome = [h \in Handlers |-> "none"]
  /\ pre = [h \in Handlers |-> NoPre]

\* The card create requests that carry a title, with or without a tag_id.
TaggedItemRequests ==
  {[NoReq EXCEPT !.kind = "createItem", !.user = u, !.col = c, !.title = t,
                 !.tag = g] :
     u \in Users, c \in ColIds, t \in Titles, g \in {NoId} \cup TagIds}

\* A card create request arrives while no other request is being served.
BeginItemTags(h) ==
  /\ \A g \in Handlers : pc[g] = "idle"
  /\ nextCardId <= MaxTagCards
  /\ \E r \in TaggedItemRequests : Start(h, r, FirstStep(r.kind), TRUE)

\* A tag delete request arrives while no other request is being served.
BeginTag(h) ==
  /\ \A g \in Handlers : pc[g] = "idle"
  /\ \E r \in DeleteTagRequests : Start(h, r, FirstStep(r.kind), TRUE)

TagStep(h) ==
  \/ CreateMax(h) \/ CreateInsert(h) \/ CreateFindColumn(h) \/ CreateLog(h)
  \/ TagDeleteFind(h) \/ TagDeleteCards(h) \/ TagDeleteDestroy(h)
  \/ Commit(h) \/ Fault(h) \/ Return(h)

\* The card create handler and the tag delete handler, one request at a
\* time.
NextTags == BeginItemTags(1) \/ BeginTag(1) \/ TagStep(1)

SpecTags == InitTags /\ [][NextTags]_vars

\* ------------------------------------------------------------- sessions

\* jwt.sign(..., { expiresIn }): exp is the second of signing plus the
\* expiration.
JwtExpiry(now) == (now \div Second) * Second + RefreshTicks

\* jwt.verify: the token is one the server signed and the current second is
\* before its exp.
JwtValid(t, now) ==
  t \in DOMAIN issued /\ (now \div Second) * Second < issued[t].exp

\* RefreshToken.findOne({ where: { token, expiresAt: { [Op.gt]: new Date() } } }).
FindToken(tbl, t, now) ==
  t \in DOMAIN tbl /\ tbl[t].expiresAt > now

\* DestroyToken that deletes no row.
DestroyTokenKept(tbl, t) == tbl

\* RefreshToken.destroy({ where: { token } }).
DestroyToken(tbl, t) ==
  [x \in (DOMAIN tbl) \ {t} |-> tbl[x]]

\* A login with the credentials of user u, or of no user; a refresh and a
\* logout with a cookie that holds a token, or with no cookie.
AuthRequests ==
  {[NoReq EXCEPT !.kind = "login", !.user = u] : u \in Users \cup {NoUser}}
  \cup {[NoReq EXCEPT !.kind = k, !.token = t] :
          k \in {"refreshToken", "logout"}, t \in TokenIds \cup {NoId}}

\* A request of the sessions arrives, at the time now, while no other
\* request is being served. The token of a cookie is one a login has signed
\* (its tokenId is a fresh uuid, its signature the server's), or the one
\* that no login signs.
BeginAuth(h) ==
  /\ \A g \in Handlers : pc[g] = "idle"
  /\ \E r \in AuthRequests :
       /\ r.kind = "login" => Cardinality(DOMAIN issued) < MaxTokens
       /\ r.token \in {NoId, MaxTokens + 1} \cup DOMAIN issued
       /\ Start(h, [r EXCEPT !.now = clock], FirstStep(r.kind), FALSE)

\* router.post('/login'): User.findOne and user.isValidPassword, 401 for
\* credentials of no user.
LoginFind(h) ==
  /\ pc[h] = "li_find"
  /\ IF req[h].user = NoUser
       THEN Respond(h, "unauthorized")
       ELSE Goto(h, "li_store") /\ UNCHANGED outcome
  /\ UNCHANGED <<cards, columns, tags, auth, client, log, nextCardId, nextColId,
                 colWrites, req, loc, tx, pre>>

\* router.post('/login'): generateRefreshToken, RefreshToken.create({ userId,
\* token, expiresAt }), res.cookie, res.json.
LoginStore(h) ==
  /\ pc[h] = "li_store"
  /\ LET t == Cardinality(DOMAIN issued) + 1 IN
       /\ issued' = (t :> [userId |-> req[h].user, exp |-> JwtExpiry(clock)]) @@ issued
       /\ refreshTokens' =
            (t :> [userId |-> req[h].user, expiresAt |-> clock + RefreshTicks])
              @@ refreshTokens
       /\ loc' = [loc EXCEPT ![h].newId = t]
  /\ Respond(h, "ok")
  /\ UNCHANGED <<cards, columns, tags, revoked, clock, accounts, client, log, nextCardId,
                 nextColId, colWrites, req, tx, pre>>

\* router.post('/refresh-token'): 401 for no cookie, RefreshToken.findOne,
\* 403 for no row.
RefreshFind(h) ==
  /\ pc[h] = "rt_find"
  /\ IF req[h].token = NoId
       THEN Respond(h, "unauthorized")
       ELSE IF ~FindToken(refreshTokens, req[h].token, clock)
              THEN Respond(h, "forbidden")
              ELSE Goto(h, "rt_verify") /\ UNCHANGED outcome
  /\ UNCHANGED <<cards, columns, tags, auth, client, log, nextCardId, nextColId,
                 colWrites, req, loc, tx, pre>>

\* router.post('/refresh-token'): jwt.verify and User.findByPk; the inner
\* catch destroys the token and answers 403; else the new access token.
RefreshVerify(h) ==
  /\ pc[h] = "rt_verify"
  /\ IF ~JwtValid(req[h].token, clock)
       THEN /\ refreshTokens' = DestroyToken(refreshTokens, req[h].token)
            /\ Respond(h, "forbidden")
       ELSE /\ Respond(h, IF issued[req[h].token].userId \in Users
                            THEN "ok" ELSE "forbidden")
            /\ UNCHANGED refreshTokens
  /\ UNCHANGED <<cards, columns, tags, issued, revoked, clock, accounts, client, log, nextCardId,
                 nextColId, colWrites, req, loc, tx, pre>>

\* router.post('/refresh-token'): User.findByPk throws inside the inner try:
\* the inner catch destroys the token and answers 403, or, where the destroy
\* throws as well, the outer catch answers 500.
RefreshVerifyFault(h) ==
  /\ pc[h] = "rt_verify"
  /\ \/ /\ refreshTokens' = DestroyToken(refreshTokens, req[h].token)
        /\ Respond(h, "forbidden")
     \/ /\ UNCHANGED refreshTokens
        /\ Respond(h, "error")
  /\ loc' = [loc EXCEPT ![h].faultAt = "rt_verify"]
  /\ UNCHANGED <<cards, columns, tags, issued, revoked, clock, accounts, client, log, nextCardId,
                 nextColId, colWrites, req, tx, pre>>

\* router.post('/logout'): RefreshToken.destroy for the token of the cookie,
\* res.clearCookie, res.json.
Logout(h) ==
  /\ pc[h] = "lo_destroy"
  /\ IF req[h].token # NoId
       THEN /\ refreshTokens' = DestroyToken(refreshTokens, req[h].token)
            /\ revoked' = revoked \cup {req[h].token}
       ELSE UNCHANGED <<refreshTokens, revoked>>
  /\ Respond(h, "ok")
  /\ UNCHANGED <<cards, columns, tags, issued, clock, accounts, client, log, nextCardId,
                 nextColId, colWrites, req, loc, tx, pre>>

\* A query of login or logout, or the findOne of refresh-token, throws; the
\* catch block answers 500.
AuthFault(h) ==
  /\ pc[h] \in {"li_find", "li_store", "rt_find", "lo_destroy"}
  /\ Respond(h, "error")
  /\ loc' = [loc EXCEPT ![h].faultAt = pc[h]]
  /\ UNCHANGED <<cards, columns, tags, auth, client, log, nextCardId, nextColId,
                 colWrites, req, tx, pre>>

\* Time passes.
Tick ==
  /\ clock < MaxClock
  /\ clock' = clock + 1
  /\ UNCHANGED <<cards, columns, tags, refreshTokens, issued, revoked, accounts, client,
                 log, nextCardId, nextColId, colWrites, pc, req, loc, tx, outcome, pre>>

AuthStep(h) ==
  \/ LoginFind(h) \/ LoginStore(h) \/ RefreshFind(h) \/ RefreshVerify(h)
  \/ RefreshVerifyFault(h) \/ Logout(h) \/ AuthFault(h) \/ Return(h)

\* The session handlers, one request at a time, as time passes.
NextAuth == BeginAuth(1) \/ AuthStep(1) \/ Tick

SpecAuth == Init /\ [][NextAuth]_vars

\* ------------------------------------------------------------- register

\* The emails a body may carry: none, one that is no address, and addresses.
Emails == {NullStr, "nobody", "a@x.io", "b@x.io"}

\* The passwords a body may carry: none, one of 5 and one of 8 characters.
Passwords == {NullStr, "short", "longpass"}

\* validator.isEmail(email).
IsEmail(email) == email \in {"a@x.io", "b@x.io"}

\* password.length.
PasswordLength(password) ==
  CASE password = "short" -> 5
    [] password = "longpass" -> 8
    [] OTHER -> 0

\* router.post('/register'): password.length < 8.
MinPassword == 8

RegisterRequests ==
  {[NoReq EXCEPT !.kind = "register", !.email = m, !.password = w] :
     m \in Emails, w \in Passwords}

\* A POST /register arrives while no other request is being served:
\* sequelize.transaction() comes before the try block.
BeginRegister(h) ==
  /\ \A g \in Handlers : pc[g] = "idle"
  /\ \E r \in RegisterRequests : Start(h, r, FirstStep(r.kind), TRUE)

\* router.post('/register'): the three checks of the body, each answering
\* 400 with a return that neither commits nor rolls back.
RegisterValidate(h) ==
  /\ pc[h] = "rg_validate"
  /\ IF \/ req[h].email = NullStr \/ req[h].password = NullStr
        \/ ~IsEmail(req[h].email)
        \/ PasswordLength(req[h].password) < MinPassword
       THEN Respond(h, "invalid")
       ELSE Goto(h, "rg_find") /\ UNCHANGED outcome
  /\ UNCHANGED <<cards, columns, tags, auth, client, log, nextCardId, nextColId,
                 colWrites, req, loc, tx, pre>>

\* router.post('/register'): User.findOne({ where: { email } }); rollback
\* and 409 for an existing user.
RegisterFind(h) ==
  /\ pc[h] = "rg_find"
  /\ IF req[h].email \in accounts
       THEN RollbackAnd(h, "conflict")
       ELSE /\ Goto(h, "rg_create")
            /\ UNCHANGED <<cards, columns, tags, auth, client, log, tx, outcome>>
  /\ UNCHANGED <<nextCardId, nextColId, colWrites, req, loc, pre>>

\* router.post('/register'): User.create({ email, password, name },
\* { transaction }).
RegisterCreate(h) ==
  /\ pc[h] = "rg_create"
  /\ Goto(h, "rg_commit")
  /\ UNCHANGED <<cards, columns, tags, auth, client, log, nextCardId, nextColId,
                 colWrites, req, loc, tx, outcome, pre>>

\* router.post('/register'): transaction.commit(), 201.
RegisterCommit(h) ==
  /\ pc[h] = "rg_commit"
  /\ accounts' = accounts \cup {req[h].email}
  /\ tx' = [tx EXCEPT ![h] = NoTx]
  /\ Respond(h, "ok")
  /\ UNCHANGED <<cards, columns, tags, refreshTokens, issued, revoked, clock, client,
                 log, nextCardId, nextColId, colWrites, req, loc, pre>>

\* router.post('/register'): User.findOne or User.create throws; the catch
\* block rolls back and answers 500.
RegisterFault(h) ==
  /\ pc[h] \in {"rg_find", "rg_create"}
  /\ Catch(h, pc[h])
  /\ UNCHANGED <<nextCardId, nextColId, colWrites, req, pre>>

\* The register handler, one request at a time.
NextRegister ==
  \/ BeginRegister(1)
  \/ RegisterValidate(1) \/ RegisterFind(1) \/ RegisterCreate(1)
  \/ RegisterCommit(1) \/ RegisterFault(1) \/ Return(1)

SpecRegister == Init /\ [][NextRegister]_vars

\* ------------------------------------------------------------- board reads

\* The ids in the order of ORDER BY major ASC, minor ASC; rows that agree on
\* both are taken in the order of their ids.
RECURSIVE Ordered(_, _, _)
Ordered(ids, major, minor) ==
  IF ids = {} THEN << >>
  ELSE LET first == CHOOSE i \in ids : \A j \in ids :
                      \/ major[i] < major[j]
                      \/ major[i] = major[j] /\ minor[i] < minor[j]
                      \/ major[i] = major[j] /\ minor[i] = minor[j] /\ i <= j
       IN << first >> \o Ordered(ids \ {first}, major, minor)

\* where: { [Op.or]: [{ userId }, { userId: null }] }.
OwnOrShared(tbl, user) ==
  {i \in DOMAIN tbl : tbl[i].userId \in {user, NoUser}}

\* cards.map(card => ({ id, title, column_id, position, tag_id, user_id })).
CardItem(tbl, i) ==
  [id |-> i, title |-> tbl[i].title, column_id |-> tbl[i].columnId,
   position |-> tbl[i].position, tag_id |-> tbl[i].tagId,
   user_id |-> tbl[i].userId]

\* router.get('/') of the cards: the requester's cards and the shared ones,
\* by column and position.
ListCardsRows(tbl, user) ==
  LET ids == OwnOrShared(tbl, user)
      seq == Ordered(ids, [i \in ids |-> tbl[i].columnId],
                          [i \in ids |-> tbl[i].position])
  IN [n \in DOMAIN seq |-> CardItem(tbl, seq[n])]

\* router.get('/:id') of the cards: Card.findByPk(id), whoever owns it.
GetCardRows(tbl, id) ==
  IF id \in DOMAIN tbl THEN << CardItem(tbl, id) >> ELSE << >>

\* The requester's and the shared cards of column col, by position.
ColumnCards(tbl, col, user) ==
  LET ids == {i \in OwnOrShared(tbl, user) : tbl[i].columnId = col}
      seq == Ordered(ids, [i \in ids |-> tbl[i].position], [i \in ids |-> 0])
  IN [n \in DOMAIN seq |-> CardItem(tbl, seq[n])]

\* { id, name, position, user_id, cards } of a column.
ColumnItem(cols, tbl, c, user) ==
  [id |-> c, name |-> cols[c].name, position |-> cols[c].position,
   user_id |-> cols[c].userId, cards |-> ColumnCards(tbl, c, user)]

\* router.get('/') of the columns: the requester's columns and the shared
\* ones by position, each with the requester's and the shared cards in it.
ListColumnsRows(cols, tbl, user) ==
  LET ids == OwnOrShared(cols, user)
      seq == Ordered(ids, [c \in ids |-> cols[c].position], [c \in ids |-> 0])
  IN [n \in DOMAIN seq |-> ColumnItem(cols, tbl, seq[n], user)]

\* router.get('/:id') of the columns: Column.findByPk(id), whoever owns it,
\* with the requester's and the shared cards in it.
GetColumnRows(cols, tbl, id, user) ==
  IF id \in DOMAIN cols THEN << ColumnItem(cols, tbl, id, user) >> ELSE << >>

\* router.get('/:id/cards') of the tags: the requester's and the shared cards
\* with the tag, by the position of their column and their own.
TagCardsRows(cols, tbl, tag, user) ==
  LET ids == {i \in OwnOrShared(tbl, user) : tbl[i].tagId = tag}
      seq == Ordered(ids, [i \in ids |-> cols[tbl[i].columnId].position],
                          [i \in ids |-> tbl[i].position])
  IN [n \in DOMAIN seq |-> CardItem(tbl, seq[n])]

ReadKinds == {"listCards", "getCard", "listColumns", "getColumn", "listCardsByTag"}

ReadRequests ==
  {[NoReq EXCEPT !.kind = "listCards", !.user = u] : u \in Users}
  \cup {[NoReq EXCEPT !.kind = "getCard", !.user = u, !.card = i] :
          u \in Users, i \in CardIds}
  \cup {[NoReq EXCEPT !.kind = "listColumns", !.user = u] : u \in Users}
  \cup {[NoReq EXCEPT !.kind = "getColumn", !.user = u, !.col = c] :
          u \in Users, c \in ColIds}
  \cup {[NoReq EXCEPT !.kind = "listCardsByTag", !.user = u, !.tag = t] :
          u \in Users, t \in TagIds}

\* A read of the board arrives while no other request is being served.
BeginRead(h) ==
  /\ \A g \in Handlers : pc[g] = "idle"
  /\ \E r \in ReadRequests : Start(h, r, FirstStep(r.kind), FALSE)

\* The answer of a read: 404 for no row found by its key, else the rows.
Answer(h, found, rows) ==
  /\ loc' = [loc EXCEPT ![h].rows = IF found THEN rows ELSE << >>]
  /\ Respond(h, IF found THEN "ok" ELSE "notfound")
  /\ UNCHANGED <<cards, columns, tags, auth, client, log, nextCardId, nextColId, colWrites,
                 req, tx, pre>>

\* cards router.get('/').
ListCardsQuery(h) ==
  /\ pc[h] = "lc_query"
  /\ Answer(h, TRUE, ListCardsRows(cards, req[h].user))

\* cards router.get('/:id').
GetCardQuery(h) ==
  /\ pc[h] = "gc_query"
  /\ Answer(h, req[h].card \in DOMAIN cards, GetCardRows(cards, req[h].card))

\* columns router.get('/').
ListColumnsQuery(h) ==
  /\ pc[h] = "lcol_query"
  /\ Answer(h, TRUE, ListColumnsRows(columns, cards, req[h].user))

\* columns router.get('/:id').
GetColumnQuery(h) ==
  /\ pc[h] = "gcol_query"
  /\ Answer(h, req[h].col \in DOMAIN columns,
            GetColumnRows(columns, cards, req[h].col, req[h].user))

\* tags router.get('/:id/cards').
TagCardsQuery(h) ==
  /\ pc[h] = "lt_query"
  /\ Answer(h, req[h].tag \in DOMAIN tags,
            TagCardsRows(columns, cards, req[h].tag, req[h].user))

\* A query of a read throws; the catch block answers 500.
ReadFault(h) ==
  /\ pc[h] \in {"lc_query", "gc_query", "lcol_query", "gcol_query", "lt_query"}
  /\ Respond(h, "error")
  /\ loc' = [loc EXCEPT ![h].faultAt = pc[h]]
  /\ UNCHANGED <<cards, columns, tags, auth, client, log, nextCardId, nextColId, colWrites,
                 req, tx, pre>>

ReadStep(h) ==
  \/ ListCardsQuery(h) \/ GetCardQuery(h) \/ ListColumnsQuery(h)
  \/ GetColumnQuery(h) \/ TagCardsQuery(h) \/ ReadFault(h)

\* The reads of the board and the column handlers, one request at a time,
\* on the board with a column of user 1.
NextReads ==
  \/ BeginRead(1) \/ ReadStep(1)
  \/ BeginContainerOwned(1) \/ ContainerStep(1)

SpecReads == InitOwned /\ [][NextReads]_vars

\* The board after user 1 has created three cards in column 1 (three runs of
\* router.post('/') from Init).
MoveCards ==
  ConcCards @@
  (3 :> [title |-> "T", columnId |-> 1, position |-> 3, userId |-> 1,
         tagId |-> NoId])

MoveLog ==
  ConcLog \o << LogEntry(3, "T", "created", NullStr, "Backlog", NoPos, 3, 1) >>

InitMoves ==
  /\ cards = MoveCards
  /\ columns = SeedColumns
  /\ tags = SeedTags
  /\ InitAuth
  /\ log = MoveLog
  /\ nextCardId = 4
  /\ nextColId = 4
  /\ colWrites = 0
  /\ pc = [h \in Handlers |-> "idle"]
  /\ req = [h \in Handlers |-> NoReq]
  /\ loc = [h \in Handlers |-> NoLoc]
  /\ tx = [h \in Handlers |-> NoTx]
  /\ outcome = [h \in Handlers |-> "none"]
  /\ pre = [h \in Handlers |-> NoPre]

\* A card request arrives at the board of three cards while no other request
\* is being served.
BeginItemMoves(h) ==
  /\ \A g \in Handlers : pc[g] = "idle"
  /\ Len(log) < Len(MoveLog) + MaxMoveOps
  /\ \E r \in ItemRequests :
       /\ r.kind = "createItem" => nextCardId <= MaxMoveCards
       /\ Start(h, r, FirstStep(r.kind), TRUE)

\* The card handlers, one request at a time, on the board of three cards.
NextMoves == BeginItemMoves(1) \/ ItemStep(1)

SpecMoves == InitMoves /\ [][NextMoves]_vars

\* The board two concurrent runs of router.post('/') leave from ConcCards when
\* each runs Card.max before the other commits: both new cards at position 3.
RacedCards ==
  ConcCards @@
  (3 :> [title |-> "T", columnId |-> 1, position |-> 3, userId |-> 1,
         tagId |-> NoId]) @@
  (4 :> [title |-> "T", columnId |-> 1, position |-> 3, userId |-> 1,
         tagId |-> NoId])

RacedLog ==
  ConcLog \o
  << LogEntry(3, "T", "created", NullStr, "Backlog", NoPos, 3, 1),
     LogEntry(4, "T", "created", NullStr, "Backlog", NoPos, 3, 1) >>

InitRaced ==
  /\ cards = RacedCards
  /\ columns = SeedColumns
  /\ tags = SeedTags
  /\ InitAuth
  /\ log = RacedLog
  /\ nextCardId = 5
  /\ nextColId = 4
  /\ colWrites = 0
  /\ pc = [h \in Handlers |-> "idle"]
  /\ req = [h \in Handlers |-> NoReq]
  /\ loc = [h \in Handlers |-> NoLoc]
  /\ tx = [h \in Handlers |-> NoTx]
  /\ outcome = [h \in Handlers |-> "none"]
  /\ pre = [h \in Handlers |-> NoPre]

\* A card request arrives while no other request is being served.
BeginItemRaced(h) ==
  /\ \A g \in Handlers : pc[g] = "idle"
  /\ Len(log) < Len(RacedLog) + MaxRacedOps
  /\ \E r \in ItemRequests :
       /\ r.kind = "createItem" => nextCardId <= MaxRacedCards
       /\ Start(h, r, FirstStep(r.kind), TRUE)

\* The card handlers, one request at a time, on the board the race left.
NextRaced == BeginItemRaced(1) \/ ItemStep(1)

SpecRaced == InitRaced /\ [][NextRaced]_vars

\* ------------------------------------------------------------- board page

\* The user whose browser shows the board.
ClientUser == 1

\* The cards of the board the page is loaded on: two cards in column 1 and
\* one in column 2, created by the user (three runs of router.post('/')).
ClientCards ==
  (1 :> [title |-> "T", columnId |-> 1, position |-> 1, userId |-> ClientUser,
         tagId |-> NoId]) @@
  (2 :> [title |-> "T", columnId |-> 1, position |-> 2, userId |-> ClientUser,
         tagId |-> NoId]) @@
  (3 :> [title |-> "T", columnId |-> 2, position |-> 1, userId |-> ClientUser,
         tagId |-> NoId])

ClientLog ==
  << LogEntry(1, "T", "created", NullStr, "Backlog", NoPos, 1, ClientUser),
     LogEntry(2, "T", "created", NullStr, "Backlog", NoPos, 2, ClientUser),
     LogEntry(3, "T", "created", NullStr, "To Do", NoPos, 1, ClientUser) >>

\* fetchBoardData has run: setColumns(columnsResponse.data).
InitClient ==
  /\ cards = ClientCards
  /\ columns = SeedColumns
  /\ tags = SeedTags
  /\ refreshTokens = EmptyTable
  /\ issued = EmptyTable
  /\ revoked = {}
  /\ clock = 0
  /\ accounts = {}
  /\ client = [NoClient EXCEPT
                 !.board = ListColumnsRows(SeedColumns, ClientCards, ClientUser)]
  /\ log = ClientLog
  /\ nextCardId = 4
  /\ nextColId = 4
  /\ colWrites = 0
  /\ pc = [h \in Handlers |-> "idle"]
  /\ req = [h \in Handlers |-> NoReq]
  /\ loc = [h \in Handlers |-> NoLoc]
  /\ tx = [h \in Handlers |-> NoTx]
  /\ outcome = [h \in Handlers |-> "none"]
  /\ pre = [h \in Handlers |-> NoPre]

\* newColumns.findIndex(col => col.id === id): 0 stands for -1.
ColumnIndex(board, col) ==
  IF \E n \in DOMAIN board : board[n].id = col
    THEN CHOOSE n \in DOMAIN board : board[n].id = col
    ELSE 0

\* cards.filter(card => card.id !== cardId).
WithoutCard(seq, cardId) == SelectSeq(seq, LAMBDA c : c.id # cardId)

\* cards.splice(at, 0, card): a start beyond the end appends.
Spliced(seq, at, card) ==
  LET k == IF at > Len(seq) THEN Len(seq) ELSE at
  IN SubSeq(seq, 1, k) \o << card >> \o SubSeq(seq, k + 1, Len(seq))

\* cards.map((card, index) => ({ ...card, position: index + 1 })).
Renumbered(seq) == [k \in DOMAIN seq |-> [seq[k] EXCEPT !.position = k]]

\* Math.max(...cards.map(card => card.position)), cards not empty.
HighestPosition(seq) == Max({seq[k].position : k \in DOMAIN seq})

\* handleDragEnd: newColumns, from the removal of the card from its column to
\* its insertion in the column it is dropped on.
Optimistic(board, from, to) ==
  LET fi == ColumnIndex(board, from.column_id)
      cardToMove == CHOOSE c \in {board[fi].cards[k] : k \in DOMAIN board[fi].cards} :
                      c.id = from.cardId
      removed == [board EXCEPT ![fi].cards = WithoutCard(@, from.cardId)]
      ti == ColumnIndex(removed, to.column_id)
      dest == removed[ti].cards
  IN IF to.index = 0 - 1
       THEN [removed EXCEPT ![ti].cards =
               Append(dest, [cardToMove EXCEPT
                               !.position = (IF Len(dest) > 0 THEN HighestPosition(dest)
                                             ELSE 0) + 1,
                               !.column_id = to.column_id])]
       ELSE [removed EXCEPT ![ti].cards =
               Renumbered(Spliced(dest, to.index,
                                  [cardToMove EXCEPT !.column_id = to.column_id]))]

\* handleDragEnd: the position of the body of axios.put.
SentPosition(newColumns, to) ==
  IF to.index = 0 - 1
    THEN HighestPosition(newColumns[ColumnIndex(newColumns, to.column_id)].cards)
    ELSE to.index + 1

\* handleDragStart(column.id, card.id, index) of a card the page shows.
HandleDragStart ==
  /\ client.pc = "idle"
  /\ client.drags < MaxDrags
  /\ \A h \in Handlers : pc[h] = "idle"
  /\ \E n \in DOMAIN client.board : \E k \in DOMAIN client.board[n].cards :
       client' = [client EXCEPT
                    !.dragCard = [column_id |-> client.board[n].id,
                                  cardId |-> client.board[n].cards[k].id,
                                  index |-> k - 1]]
  /\ UNCHANGED <<cards, columns, tags, auth, log, nextCardId, nextColId, colWrites,
                 pc, req, loc, tx, outcome, pre>>

\* handleDragOver(e, column.id, card.id, index) of a card the page shows,
\* while a card is dragged; the event then reaches handleColumnDragOver of
\* the card's column, which keeps the reference.
HandleDragOver ==
  /\ client.pc = "idle"
  /\ client.dragCard # NoDrag
  /\ \E n \in DOMAIN client.board : \E k \in DOMAIN client.board[n].cards :
       client' = [client EXCEPT
                    !.dragOverCard = [column_id |-> client.board[n].id,
                                      cardId |-> client.board[n].cards[k].id,
                                      index |-> k - 1]]
  /\ UNCHANGED <<cards, columns, tags, auth, log, nextCardId, nextColId, colWrites,
                 pc, req, loc, tx, outcome, pre>>

\* handleColumnDragOver(e, column.id) of a column the page shows, the event
\* being over no card of it, while a card is dragged.
HandleColumnDragOver ==
  /\ client.pc = "idle"
  /\ client.dragCard # NoDrag
  /\ \E n \in DOMAIN client.board :
       client' = [client EXCEPT
                    !.dragOverCard =
                       IF client.dragOverCard = NoDrag
                          \/ client.dragOverCard.column_id # client.board[n].id
                         THEN [column_id |-> client.board[n].id, cardId |-> 0 - 1,
                               index |-> 0 - 1]
                         ELSE @]
  /\ UNCHANGED <<cards, columns, tags, auth, log, nextCardId, nextColId, colWrites,
                 pc, req, loc, tx, outcome, pre>>

\* handleDragEnd up to the await of axios.put: the returns for no reference
\* and for the same place, the optimistic update, the request.
HandleDragEnd ==
  /\ client.pc = "idle"
  /\ client.dragCard # NoDrag
  /\ LET from == client.dragCard
         to == client.dragOverCard
     IN IF to = NoDrag
          THEN UNCHANGED <<client, pc, req, loc, tx, outcome, pre, cards, columns,
                           tags, auth, log, nextCardId, nextColId, colWrites>>
          ELSE IF \/ from.column_id = to.column_id /\ from.index = to.index
                  \/ ColumnIndex(client.board, from.column_id) = 0
                  \/ ColumnIndex(client.board, to.column_id) = 0
                 THEN /\ client' = [client EXCEPT !.dragCard = NoDrag,
                                                   !.dragOverCard = NoDrag]
                      /\ UNCHANGED <<pc, req, loc, tx, outcome, pre, cards, columns,
                                     tags, auth, log, nextCardId, nextColId, colWrites>>
                 ELSE LET newColumns == Optimistic(client.board, from, to) IN
                        /\ client' = [client EXCEPT !.board = newColumns,
                                                    !.pc = "awaitPut",
                                                    !.result = "none",
                                                    !.drags = @ + 1]
                        /\ Arrive(1, [NoReq EXCEPT !.kind = "updateItem",
                                                   !.user = ClientUser,
                                                   !.card = from.cardId,
                                                   !.col = to.column_id,
                                                   !.pos = SentPosition(newColumns, to)],
                                  FirstStep("updateItem"), TRUE)

\* handleDragEnd after axios.put: on its answer the finally block resets the
\* references; on its failure the catch block first asks for the columns.
PutAnswered ==
  /\ client.pc = "awaitPut"
  /\ pc[1] = "done"
  /\ IF outcome[1] = "ok"
       THEN /\ client' = [client EXCEPT !.pc = "idle", !.result = "moved",
                                        !.dragCard = NoDrag, !.dragOverCard = NoDrag]
            /\ UNCHANGED <<cards, columns, tags, auth, log, nextCardId, nextColId,
                           colWrites, pc, req, loc, tx, outcome, pre>>
       ELSE /\ client' = [client EXCEPT !.pc = "awaitGet"]
            /\ Arrive(1, [NoReq EXCEPT !.kind = "listColumns", !.user = ClientUser],
                      FirstStep("listColumns"), FALSE)

\* handleDragEnd after axios.get of the catch block: setColumns of its
\* answer, or its failure leaving the catch block; the finally block resets
\* the references.
GetAnswered ==
  /\ client.pc = "awaitGet"
  /\ pc[1] = "done"
  /\ client' = [client EXCEPT
                  !.board = IF outcome[1] = "ok" THEN loc[1].rows ELSE @,
                  !.result = IF outcome[1] = "ok" THEN "refetched" ELSE "unfetched",
                  !.pc = "idle", !.dragCard = NoDrag, !.dragOverCard = NoDrag]
  /\ UNCHANGED <<cards, columns, tags, auth, log, nextCardId, nextColId, colWrites,
                 pc, req, loc, tx, outcome, pre>>

\* The handler returns once the page has its answer.
ReturnToClient ==
  /\ client.pc = "idle"
  /\ Return(1)

\* The drags of the board page and the handlers that serve its requests.
NextClient ==
  \/ HandleDragStart \/ HandleDragOver \/ HandleColumnDragOver \/ HandleDragEnd
  \/ UpdateFind(1) \/ UpdateFindColumn(1) \/ UpdateShift(1) \/ UpdateShift2(1)
  \/ UpdateWrite(1) \/ UpdateLog(1) \/ Fault(1)
  \/ ListColumnsQuery(1) \/ ReadFault(1)
  \/ PutAnswered \/ GetAnswered \/ ReturnToClient

SpecClient == InitClient /\ [][NextClient]_vars

\* ------------------------------------------------------------- properties

ItemKinds == {"createItem", "updateItem", "deleteItem"}

CardsOf(tbl, col) == {i \in DOMAIN tbl : tbl[i].columnId = col}

\* The positions of the cards of every column are 1..N.
CardsDense(tbl) ==
  \A col \in ColIds :
    {tbl[i].position : i \in CardsOf(tbl, col)} = 1..Cardinality(CardsOf(tbl, col))

Finished(h) == pc[h] = "done"

\* The committed cards and log are those the request found.
ItemsUntouched(h) == cards = pre[h].cards /\ log = pre[h].log

\* The request of handler h names a card or a column that did not exist when
\* it arrived.
MissingTarget(h) ==
  \/ req[h].kind = "createItem" /\ req[h].col \notin DOMAIN pre[h].columns
  \/ req[h].kind \in {"updateItem", "deleteItem"}
       /\ req[h].card \notin DOMAIN pre[h].cards
  \/ req[h].kind = "updateItem" /\ req[h].card \in DOMAIN pre[h].cards
       /\ req[h].col \notin DOMAIN pre[h].columns

\* The request of handler h is an updateItem of an existing card to an
\* existing column.
MoveOfExisting(h) ==
  /\ req[h].kind = "updateItem"
  /\ req[h].card \in DOMAIN pre[h].cards
  /\ req[h].col \in DOMAIN pre[h].columns

\* C1: after any sequence of successful card calls, one at a time, the
\* positions of the cards of every column are exactly 1..N.
C1_CardDensity == CardsDense(cards)

\* C2: for every user, the positions of the columns that user sees (its own
\* and the system's) are exactly 1..N.
C2_ColumnDensityPerUser ==
  \A u \in Users :
    LET seen == {i \in DOMAIN columns : columns[i].userId \in {u, NoUser}}
    IN {columns[i].position : i \in seen} = 1..Cardinality(seen)

\* C3: a card call in which a statement of the open transaction raised a
\* storage error (answered 500 after the rollback) leaves the cards and the
\* log as it found them.
C3_RollbackAtomicity ==
  \A h \in Handlers :
    (Finished(h) /\ req[h].kind \in ItemKinds /\ outcome[h] = "error")
      => ItemsUntouched(h)

\* C3 witness: an updateItem that moved a card to another column, shifted
\* the cards there, and failed at its log insert.
C3_Witness ==
  \E h \in Handlers :
    /\ Finished(h) /\ outcome[h] = "error" /\ loc[h].faultAt = "u_log"
    /\ MoveOfExisting(h)
    /\ req[h].col # loc[h].card.columnId
    /\ MatchFrom(pre[h].cards, req[h].col, req[h].pos) # {}

\* C4: a successful card call lengthens the log by exactly one entry, a
\* failed one by none.
C4_OneLogEntryPerCall ==
  \A h \in Handlers :
    (Finished(h) /\ req[h].kind \in ItemKinds)
      => Len(log) = Len(pre[h].log) + (IF outcome[h] = "ok" THEN 1 ELSE 0)

\* A move request with a destination inside the dense range of its column.
InRange(h) ==
  req[h].kind = "updateItem" =>
    /\ MoveOfExisting(h)
    /\ LET n == Cardinality(CardsOf(pre[h].cards, req[h].col))
       IN IF req[h].col = pre[h].cards[req[h].card].columnId
            THEN req[h].pos \in 1..n
            ELSE req[h].pos \in 1..(n + 1)

\* C5: two concurrent card calls never both commit and leave a column with a
\* duplicate position or a gap.
C5_ConcurrentDensity ==
  ( /\ \A h \in Handlers : Finished(h) /\ outcome[h] = "ok" /\ InRange(h)
    /\ pre[1].log = pre[2].log
    /\ CardsDense(pre[1].cards) )
    => CardsDense(cards)

\* C6: an updateItem whose destination position is outside 1..N+1 of the
\* destination column is rejected and changes nothing.
C6_InvalidPositionRejected ==
  \A h \in Handlers :
    ( /\ Finished(h) /\ MoveOfExisting(h)
      /\ req[h].pos \notin
           1..(Cardinality(CardsOf(pre[h].cards, req[h].col)) + 1) )
      => outcome[h] # "ok" /\ ItemsUntouched(h)

\* C7: an updateItem or deleteItem on a card owned by another user is
\* rejected and changes nothing.
C7_ForbiddenItems ==
  \A h \in Handlers :
    ( /\ Finished(h) /\ req[h].kind \in {"updateItem", "deleteItem"}
      /\ req[h].card \in DOMAIN pre[h].cards
      /\ pre[h].cards[req[h].card].userId \notin {NoUser, req[h].user} )
      => outcome[h] # "ok" /\ ItemsUntouched(h)

\* C8: a card call that names a missing card or column, and meets no storage
\* error other than the one its own statements provoke, is answered not
\* found and leaves the cards and the log untouched.
C8_NotFoundNoEffect ==
  \A h \in Handlers :
    (Finished(h) /\ MissingTarget(h) /\ loc[h].faultAt \in {"none", "foreign_key"})
      => outcome[h] = "notfound" /\ ItemsUntouched(h)

\* C9: a call that does not end in its success response leaves the tables as
\* it found them.
C9_FailureMeansNoEffect ==
  \A h \in Handlers :
    (Finished(h) /\ outcome[h] # "ok")
      => ItemsUntouched(h) /\ columns = pre[h].columns

\* The request of handler h moves a card to the column and position it has.
MoveToSelf(h) ==
  /\ MoveOfExisting(h)
  /\ req[h].col = pre[h].cards[req[h].card].columnId
  /\ req[h].pos = pre[h].cards[req[h].card].position

\* C10: a successful move of a card to its own column and position changes
\* no card's column or position and appends one log entry, of kind updated.
C10_MoveToSelf ==
  \A h \in Handlers :
    (Finished(h) /\ outcome[h] = "ok" /\ MoveToSelf(h))
      => /\ DOMAIN cards = DOMAIN pre[h].cards
         /\ \A i \in DOMAIN cards :
              /\ cards[i].columnId = pre[h].cards[i].columnId
              /\ cards[i].position = pre[h].cards[i].position
         /\ Len(log) = Len(pre[h].log) + 1
         /\ SubSeq(log, 1, Len(pre[h].log)) = pre[h].log
         /\ log[Len(log)].actionType = "updated"

\* C10 witness: such a move, in a column that holds another card too.
C10_Witness ==
  \E h \in Handlers :
    /\ Finished(h) /\ outcome[h] = "ok" /\ MoveToSelf(h)
    /\ Cardinality(CardsOf(cards, req[h].col)) > 1

\* The positions of the cards of column col are 1..N.
ColumnDense(tbl, col) ==
  {tbl[i].position : i \in CardsOf(tbl, col)} = 1..Cardinality(CardsOf(tbl, col))

\* The card the request of handler h names, as the request found it.
Subject(h) == pre[h].cards[req[h].card]

\* The number of cards column col held when the request of handler h arrived.
SizeBefore(h, col) == Cardinality(CardsOf(pre[h].cards, col))

\* A successful updateItem of handler h inside the column of its card, to
\* another position of 1..N.
Reorder(h) ==
  /\ Finished(h) /\ outcome[h] = "ok" /\ MoveOfExisting(h)
  /\ req[h].col = Subject(h).columnId
  /\ req[h].pos # Subject(h).position
  /\ req[h].pos \in 1..SizeBefore(h, req[h].col)

\* C11: after a successful move of a card from position q to position p of
\* its own column (p in 1..N, p # q), the cards of that column at p..q-1
\* have gained one (p < q) or those at q+1..p have lost one (p > q), the
\* moved card is at p, and every other card is as it was.
C11_SameColumnReorder ==
  \A h \in Handlers :
    Reorder(h) =>
      LET p == req[h].pos
          q == Subject(h).position
          col == req[h].col
          old == pre[h].cards
      IN /\ DOMAIN cards = DOMAIN old
         /\ \A i \in DOMAIN old :
              /\ cards[i].columnId = old[i].columnId
              /\ cards[i].userId = old[i].userId
              /\ i # req[h].card => cards[i].title = old[i].title
              /\ cards[i].position =
                   IF i = req[h].card THEN p
                   ELSE IF old[i].columnId = col /\ p < q
                           /\ p <= old[i].position /\ old[i].position < q
                     THEN old[i].position + 1
                   ELSE IF old[i].columnId = col /\ p > q
                           /\ q < old[i].position /\ old[i].position <= p
                     THEN old[i].position - 1
                   ELSE old[i].position

\* C11 witness: the card at 3 of a column of three cards moved to 1.
C11_Witness ==
  \E h \in Handlers :
    /\ Reorder(h)
    /\ SizeBefore(h, req[h].col) = 3
    /\ Subject(h).position = 3 /\ req[h].pos = 1
    /\ CardsDense(pre[h].cards)

\* A successful updateItem of handler h to another column, at a position of
\* 1..|D|+1.
CrossMove(h) ==
  /\ Finished(h) /\ outcome[h] = "ok" /\ MoveOfExisting(h)
  /\ req[h].col # Subject(h).columnId
  /\ req[h].pos \in 1..(SizeBefore(h, req[h].col) + 1)

C14_AppendOnCreate ==
  \A h \in Handlers :
    (Finished(h) /\ outcome[h] = "ok" /\ req[h].kind = "createItem") =>
      LET old == pre[h].cards
          there == {old[i].position : i \in CardsOf(old, req[h].col)}
          new == loc[h].newId
      IN /\ DOMAIN cards = DOMAIN old \cup {new}
         /\ new \notin DOMAIN old
         /\ cards[new].columnId = req[h].col
         /\ cards[new].position = IF there = {} THEN 1 ELSE Max(there) + 1
         /\ \A i \in DOMAIN old : cards[i] = old[i]

\* C14 witness: a card created at position 1 in a column that had held a
\* card and was empty again, beside a column that holds a card.
C14_Witness ==
  \E h \in Handlers :
    /\ Finished(h) /\ outcome[h] = "ok" /\ req[h].kind = "createItem"
    /\ CardsOf(pre[h].cards, req[h].col) = {}
    /\ pre[h].cards # EmptyTable
    /\ \E n \in DOMAIN pre[h].log :
         pre[h].log[n].toColumn = pre[h].columns[req[h].col].name
    /\ cards[loc[h].newId].position = 1

\* C15: a deleteItem of an existing card that meets no storage error other
\* than the one its own statements provoke removes that card, takes one off
\* the position of the cards of its column that were after it, and leaves
\* every other card as it was.
C15_DeleteFrame ==
  \A h \in Handlers :
    ( /\ Finished(h) /\ req[h].kind = "deleteItem"
      /\ req[h].card \in DOMAIN pre[h].cards
      /\ loc[h].faultAt \in {"none", "foreign_key"} ) =>
      LET old == pre[h].cards
          gone == Subject(h)
      IN /\ outcome[h] = "ok"
         /\ DOMAIN cards = DOMAIN old \ {req[h].card}
         /\ \A i \in DOMAIN cards :
              cards[i] =
                IF old[i].columnId = gone.columnId /\ old[i].position > gone.position
                  THEN [old[i] EXCEPT !.position = @ - 1]
                  ELSE old[i]

\* C16: the log entry of a successful card call carries the names the
\* source and destination columns had when the call ran, and a call that
\* renames a column leaves the log as it found it.
C16_NameSnapshots ==
  \A h \in Handlers :
    /\ (Finished(h) /\ outcome[h] = "ok" /\ req[h].kind = "createItem")
         => log[Len(log)].toColumn = pre[h].columns[req[h].col].name
    /\ (Finished(h) /\ outcome[h] = "ok" /\ MoveOfExisting(h))
         => /\ log[Len(log)].fromColumn = pre[h].columns[Subject(h).columnId].name
            /\ log[Len(log)].toColumn = pre[h].columns[req[h].col].name
    /\ (Finished(h) /\ outcome[h] = "ok" /\ req[h].kind = "deleteItem")
         => log[Len(log)].fromColumn = pre[h].columns[Subject(h).columnId].name
    /\ (Finished(h) /\ req[h].kind = "updateContainer") => log = pre[h].log

\* C16 witness: a column renamed after a log entry recorded its old name.
C16_Witness ==
  \E h \in Handlers :
    /\ Finished(h) /\ outcome[h] = "ok" /\ req[h].kind = "updateContainer"
    /\ columns[req[h].col].name # pre[h].columns[req[h].col].name
    /\ \E n \in DOMAIN log :
         log[n].toColumn = pre[h].columns[req[h].col].name

\* C17: no call changes or removes a log entry that existed when it
\* arrived: the log it found is a prefix of the log at every step of it.
C17_AppendOnlyLog ==
  \A h \in Handlers :
    pc[h] # "idle" =>
      /\ Len(pre[h].log) <= Len(log)
      /\ SubSeq(log, 1, Len(pre[h].log)) = pre[h].log

\* C18: a successful deleteContainer of a column that held k cards removes
\* them and appends k log entries of kind deleted, one for each of the
\* cards, with its title and the name of the column as fromColumn.
C18_DeleteContainerLogs ==
  \A h \in Handlers :
    (Finished(h) /\ outcome[h] = "ok" /\ req[h].kind = "deleteContainer") =>
      LET held == CardsOf(pre[h].cards, req[h].col)
          added == {n \in DOMAIN log : n > Len(pre[h].log)}
      IN /\ CardsOf(cards, req[h].col) = {}
         /\ Cardinality(added) = Cardinality(held)
         /\ \A i \in held : \E n \in added :
              /\ log[n].actionType = "deleted"
              /\ log[n].cardTitle = pre[h].cards[i].title
              /\ log[n].fromColumn = pre[h].columns[req[h].col].name

\* C19: a successful createContainer or updateContainer appends exactly one
\* log entry, a failed one none.
C19_ContainerLogEntry ==
  \A h \in Handlers :
    (Finished(h) /\ req[h].kind \in {"createContainer", "updateContainer"})
      => Len(log) = Len(pre[h].log) + (IF outcome[h] = "ok" THEN 1 ELSE 0)

\* The narrative the templates give for a log entry.
Template(e) ==
  LET title == "\"" \o e.cardTitle \o "\""
      from == "\"" \o e.fromColumn \o "\""
      to == "\"" \o e.toColumn \o "\""
  IN CASE e.actionType = "created" -> title \o " was created in " \o to
       [] e.actionType = "deleted" -> title \o " was deleted from " \o from
       [] e.actionType = "moved_column" ->
            title \o " was moved from " \o from \o " to " \o to
       [] e.actionType = "moved_up" ->
            title \o " was moved up within the column " \o from
       [] e.actionType = "moved_down" ->
            title \o " was moved down within the column " \o from
       [] OTHER -> title \o " was updated"

\* C20: renderNarratives answers one narrative for each log entry of the
\* requester, the one the template of its action kind gives, and leaves the
\* log as it found it.
C20_RenderNarratives ==
  \A h \in Handlers :
    (Finished(h) /\ req[h].kind = "renderNarratives") =>
      LET own == OwnEntries(pre[h].log, req[h].user)
      IN /\ outcome[h] = "ok"
         /\ log = pre[h].log
         /\ Len(loc[h].rows) = Len(own)
         /\ \A n \in DOMAIN own : loc[h].rows[n].description = Template(own[n])

\* A log entry that lacks a column name its narrative uses.
MissingSnapshot(e) ==
  \/ e.actionType \in {"deleted", "moved_column", "moved_up", "moved_down"}
       /\ e.fromColumn = NullStr
  \/ e.actionType \in {"created", "moved_column"} /\ e.toColumn = NullStr

\* A column name, or the placeholder for a missing one.
Placeholder(name) == IF name = NullStr THEN "Unknown Column" ELSE name

Range(seq) == {seq[n] : n \in DOMAIN seq}

\* The created_at of a sequence of entries never increases.
LatestFirst(seq) ==
  \A i, j \in DOMAIN seq : i < j => seq[i].created_at >= seq[j].created_at

\* C22: the grouped listing answers one group for each day on which the
\* requester has entries, the latest day first; the group of a day holds
\* exactly the requester's entries of that day, the latest first.
C22_GroupedByDay ==
  \A h \in Handlers :
    (Finished(h) /\ req[h].kind = "listGrouped") =>
      LET own == OwnEntries(pre[h].log, req[h].user)
          rows == loc[h].rows
      IN /\ outcome[h] = "ok"
         /\ \A i, j \in DOMAIN rows : i < j => rows[i].date > rows[j].date
         /\ \A k \in DOMAIN rows :
              /\ LatestFirst(rows[k].logs)
              /\ \A e \in Range(rows[k].logs) :
                   e.userId = req[h].user /\ Day(e.created_at) = rows[k].date
              /\ Len(rows[k].logs) =
                   Cardinality({n \in DOMAIN own : Day(own[n].created_at) = rows[k].date})
         /\ \A n \in DOMAIN own :
              \E k \in DOMAIN rows : rows[k].date = Day(own[n].created_at)

\* C27: listByDate(d) answers exactly the requester's entries whose
\* created_at lies on day d, from its first millisecond to its last.
C27_ListByDate ==
  \A h \in Handlers :
    (Finished(h) /\ req[h].kind = "listByDate") =>
      LET own == OwnEntries(pre[h].log, req[h].user)
          onDay == {n \in DOMAIN own : Day(own[n].created_at) = req[h].day}
          rows == loc[h].rows
      IN /\ outcome[h] = "ok"
         /\ Len(rows) = Cardinality(onDay)
         /\ \A e \in Range(rows) :
              e.userId = req[h].user /\ Day(e.created_at) = req[h].day
         /\ \A n \in onDay : own[n] \in Range(rows)

\* C28: recentSummary answers at most 20 entries, all of the requester and
\* of the last 7 days, the latest first, and no entry of the requester of
\* the last 7 days that it leaves out is later than one it answers.
C28_RecentSummary ==
  \A h \in Handlers :
    (Finished(h) /\ req[h].kind = "recentSummary") =>
      LET own == OwnEntries(pre[h].log, req[h].user)
          since == req[h].now - WeekMs
          recent == {n \in DOMAIN own : own[n].created_at >= since}
          rows == loc[h].rows
      IN /\ outcome[h] = "ok"
         /\ log = pre[h].log
         /\ Len(rows) =
              IF Cardinality(recent) < SummaryLimit
                THEN Cardinality(recent) ELSE SummaryLimit
         /\ \A e \in Range(rows) : e.userId = req[h].user /\ e.created_at >= since
         /\ LatestFirst(rows)
         /\ \A n \in recent :
              own[n] \in Range(rows)
                \/ \A e \in Range(rows) : e.created_at >= own[n].created_at

\* C28 witness: a summary of 20 entries, answered to a requester who has more
\* than 20 entries of the last 7 days and an older one, from a log that
\* holds an entry of another user.
C28_Witness ==
  \E h \in Handlers :
    /\ Finished(h) /\ req[h].kind = "recentSummary" /\ outcome[h] = "ok"
    /\ Len(loc[h].rows) = SummaryLimit
    /\ Cardinality({n \in DOMAIN log :
                      /\ log[n].userId = req[h].user
                      /\ log[n].created_at >= req[h].now - WeekMs}) > SummaryLimit
    /\ \E n \in DOMAIN log :
         log[n].userId = req[h].user /\ log[n].created_at < req[h].now - WeekMs
    /\ \E n \in DOMAIN log : log[n].userId # req[h].user

\* C24: an updateContainer or deleteContainer on a column of another user
\* is answered forbidden (unless the storage fails, and then with an error)
\* and leaves every column, every card and the log as it found them; on a
\* column of nobody or of the requester it is not answered forbidden.
C24_ForbiddenColumns ==
  \A h \in Handlers :
    ( /\ Finished(h)
      /\ req[h].kind \in {"updateContainer", "deleteContainer"}
      /\ req[h].col \in DOMAIN pre[h].columns ) =>
      LET owner == pre[h].columns[req[h].col].userId IN
        IF owner # NoUser /\ owner # req[h].user
          THEN /\ loc[h].faultAt = "none" => outcome[h] = "forbidden"
               /\ outcome[h] # "ok"
               /\ columns = pre[h].columns
               /\ cards = pre[h].cards
               /\ log = pre[h].log
          ELSE outcome[h] # "forbidden"

\* C24 witness: a deleteContainer of user 2 on the column of user 1, which
\* holds a card, has been answered forbidden.
C24_Witness ==
  \E h \in Handlers :
    /\ Finished(h) /\ req[h].kind = "deleteContainer"
    /\ outcome[h] = "forbidden"
    /\ req[h].col \in DOMAIN columns
    /\ columns[req[h].col].userId \notin {NoUser, req[h].user}
    /\ CardsOf(cards, req[h].col) # {}

\* C30: every card of the committed board names a column of the committed
\* board; a successful deleteContainer removes the column and with it
\* exactly the cards it held, of whatever owner, leaves the other cards as
\* they were, and lowers by one the position of exactly the columns that
\* stood behind the deleted one.
C30_ReferentialIntegrity ==
  /\ \A i \in DOMAIN cards : cards[i].columnId \in DOMAIN columns
  /\ \A h \in Handlers :
       (Finished(h) /\ req[h].kind = "deleteContainer" /\ outcome[h] = "ok") =>
         LET was == pre[h].columns
             held == CardsOf(pre[h].cards, req[h].col)
         IN /\ DOMAIN columns = (DOMAIN was) \ {req[h].col}
            /\ DOMAIN cards = (DOMAIN pre[h].cards) \ held
            /\ \A i \in DOMAIN cards : cards[i] = pre[h].cards[i]
            /\ \A c \in DOMAIN columns :
                 columns[c] =
                   IF was[c].position > was[req[h].col].position
                     THEN [was[c] EXCEPT !.position = @ - 1]
                     ELSE was[c]

\* C30 witness: a deleteContainer has removed a column that held a card of
\* another user than the requester, from between two other columns.
C30_Witness ==
  \E h \in Handlers :
    /\ Finished(h) /\ req[h].kind = "deleteContainer" /\ outcome[h] = "ok"
    /\ \E i \in CardsOf(pre[h].cards, req[h].col) :
         /\ pre[h].cards[i].userId \notin {NoUser, req[h].user}
         /\ i \notin DOMAIN cards
    /\ \E c, d \in DOMAIN columns :
         /\ pre[h].columns[c].position < pre[h].columns[req[h].col].position
         /\ pre[h].columns[d].position > pre[h].columns[req[h].col].position
         /\ columns[d].position = pre[h].columns[d].position - 1

\* C29: two createContainer calls that have both succeeded have given their
\* columns different positions, and the positions of the columns are 1..N.
C29_ConcurrentCreateContainer ==
  ( /\ \A h \in Handlers :
         Finished(h) /\ req[h].kind = "createContainer" /\ outcome[h] = "ok"
    /\ \A h \in Handlers : loc[h].newId \in DOMAIN columns )
    => /\ columns[loc[1].newId].position # columns[loc[2].newId].position
       /\ {columns[i].position : i \in DOMAIN columns}
            = 1..Cardinality(DOMAIN columns)

\* C23: a successful tag delete removes the tag and nothing else from the
\* tags, sets to null the tag of exactly the cards that named it, and leaves
\* every card in place with its other fields, and every column; a tag
\* delete that has not succeeded leaves cards, tags and columns as it found
\* them; no card of the committed board names a tag that is not there.
C23_TagDelete ==
  /\ \A i \in DOMAIN cards : cards[i].tagId \in {NoId} \cup DOMAIN tags
  /\ \A h \in Handlers :
       (Finished(h) /\ req[h].kind = "deleteTag") =>
         /\ columns = pre[h].columns
         /\ IF outcome[h] = "ok"
              THEN /\ tags = Restrict(pre[h].tags, (DOMAIN pre[h].tags) \ {req[h].tag})
                   /\ req[h].tag \in DOMAIN pre[h].tags
                   /\ DOMAIN cards = DOMAIN pre[h].cards
                   /\ \A i \in DOMAIN cards :
                        cards[i] =
                          IF pre[h].cards[i].tagId = req[h].tag
                            THEN [pre[h].cards[i] EXCEPT !.tagId = NoId]
                            ELSE pre[h].cards[i]
              ELSE cards = pre[h].cards /\ tags = pre[h].tags

\* C23 witness: a tag delete has succeeded on a board where one card named
\* the deleted tag and another card names another tag.
C23_Witness ==
  \E h \in Handlers :
    /\ Finished(h) /\ req[h].kind = "deleteTag" /\ outcome[h] = "ok"
    /\ \E i, j \in DOMAIN cards :
         /\ pre[h].cards[i].tagId = req[h].tag
         /\ cards[i].tagId = NoId
         /\ cards[j].tagId \notin {NoId, req[h].tag}

\* The owners of the cards and columns a read has answered.
ReturnedOwners(rows) ==
  {rows[n].user_id : n \in DOMAIN rows}
    \cup UNION {{rows[n].cards[k].user_id : k \in DOMAIN rows[n].cards} :
                 n \in {m \in DOMAIN rows : "cards" \in DOMAIN rows[m]}}

\* C25: no read of cards or columns answers a card or a column that is owned
\* by another user than the requester.
C25_ReadsFilterOwners ==
  \A h \in Handlers :
    (Finished(h) /\ req[h].kind \in ReadKinds) =>
      ReturnedOwners(loc[h].rows) \subseteq {NoUser, req[h].user}

\* C26: a refresh-token request is answered with a new access token only
\* for a token that a login has signed and stored, that had not expired when
\* the request arrived, whose user exists, and that no logout has been
\* answered for.
C26_RefreshProtocol ==
  \A h \in Handlers :
    (Finished(h) /\ req[h].kind = "refreshToken" /\ outcome[h] = "ok") =>
      /\ req[h].token \in DOMAIN issued
      /\ req[h].token \in DOMAIN refreshTokens
      /\ refreshTokens[req[h].token].expiresAt > req[h].now
      /\ refreshTokens[req[h].token].userId \in Users
      /\ req[h].token \notin revoked

\* C26 witness: a refresh-token request with a token that a login stored,
\* that has not expired and that a logout has been answered for, has been
\* rejected, while another token is still stored.
C26_Witness ==
  \E h \in Handlers :
    /\ Finished(h) /\ req[h].kind = "refreshToken"
    /\ outcome[h] = "forbidden"
    /\ req[h].token \in revoked \cap DOMAIN issued
    /\ issued[req[h].token].exp > clock + Second
    /\ refreshTokens # EmptyTable

\* C31: a successful updateContainer whose body holds no position leaves
\* the position of every column; one whose body holds a position p other
\* than the position q of the column raises by one the columns in [p, q),
\* or lowers by one the columns in (q, p], and sets the column to p.
C31_UpdateContainerPositions ==
  \A h \in Handlers :
    ( /\ Finished(h) /\ req[h].kind = "updateContainer" /\ outcome[h] = "ok"
      /\ req[h].col \in DOMAIN pre[h].columns ) =>
      LET was == pre[h].columns
          q == was[req[h].col].position
          p == IF req[h].posGiven THEN req[h].pos ELSE q
      IN /\ DOMAIN columns = DOMAIN was
         /\ columns[req[h].col].position = p
         /\ \A c \in (DOMAIN was) \ {req[h].col} :
              columns[c].position =
                IF p <= was[c].position /\ was[c].position < q
                  THEN was[c].position + 1
                ELSE IF q < was[c].position /\ was[c].position <= p
                  THEN was[c].position - 1
                ELSE was[c].position


\* C32: a listing of a card's log answers only entries of the requester, and
\* what any other user would be answered for any card is the same after a
\* request as it was when the request arrived.
C32_LogIsolation ==
  \A h \in Handlers :
    Finished(h) =>
      /\ req[h].kind = "listByItem" =>
           \A n \in DOMAIN loc[h].rows : loc[h].rows[n].userId = req[h].user
      /\ \A u \in Users \ {req[h].user} : \A c \in CardIds :
           ByItemRows(log, u, c) = ByItemRows(pre[h].log, u, c)


\* A card request whose destination position, if it is a move, lies in
\* 1..N+1 of its destination column, N counting the cards the column held
\* when the request arrived.
WithinAppendRange(h) ==
  /\ req[h].kind \in ItemKinds
  /\ req[h].kind = "updateItem" =>
       /\ MoveOfExisting(h)
       /\ req[h].pos \in 1..(SizeBefore(h, req[h].col) + 1)

\* C33: a card call that finds the positions of the cards of every column
\* to be 1..N, and whose destination position, if it is a move, lies in
\* 1..N+1 of its destination column, leaves them so.
C33_DensityInRange ==
  \A h \in Handlers :
    (Finished(h) /\ WithinAppendRange(h) /\ CardsDense(pre[h].cards))
      => CardsDense(cards)


ContainerKinds == {"createContainer", "updateContainer", "deleteContainer"}

\* The positions of the columns of every owner, taken together, are 1..N.
ColumnsDense(tbl) ==
  {tbl[i].position : i \in DOMAIN tbl} = 1..Cardinality(DOMAIN tbl)

\* A column request whose destination position, if its body carries one, is
\* one of 1..N, N counting the columns of every owner.
WithinColumns(h) ==
  /\ req[h].kind \in ContainerKinds
  /\ (req[h].kind = "updateContainer" /\ req[h].posGiven) =>
       req[h].pos \in 1..Cardinality(DOMAIN pre[h].columns)

\* C34: the positions of the seeded columns are 1, 2, 3, and a column call
\* that finds the positions of all columns to be 1..N, and whose destination
\* position, if it carries one, is one of 1..N, leaves them so.
C34_GlobalColumnDensity ==
  /\ (\A h \in Handlers : pc[h] = "idle" /\ colWrites = 0) => ColumnsDense(columns)
  /\ \A h \in Handlers :
       (Finished(h) /\ WithinColumns(h) /\ ColumnsDense(pre[h].columns))
         => ColumnsDense(columns)

\* C34: a user has moved a column of the system across a column that another
\* user had created.
C34_Witness ==
  \E h \in Handlers :
    /\ Finished(h) /\ outcome[h] = "ok" /\ WithinColumns(h)
    /\ req[h].kind = "updateContainer"
    /\ req[h].col \in DOMAIN pre[h].columns
    /\ pre[h].columns[req[h].col].userId = NoUser
    /\ ColumnsDense(pre[h].columns)
    /\ \E c \in DOMAIN pre[h].columns :
         /\ pre[h].columns[c].userId \notin {NoUser, req[h].user}
         /\ columns[c].position # pre[h].columns[c].position


\* The cards that are in one column, and are not the card the request of
\* handler h names, both when the request arrived and now.
Bystanders(h) ==
  {pair \in (DOMAIN pre[h].cards \ {req[h].card}) \X (DOMAIN cards \ {req[h].card}) :
     /\ pair[1] \in DOMAIN cards /\ pair[2] \in DOMAIN pre[h].cards
     /\ pre[h].cards[pair[1]].columnId = pre[h].cards[pair[2]].columnId
     /\ cards[pair[1]].columnId = cards[pair[2]].columnId}

\* C35: after a successful card call, of two cards other than its subject
\* that are in one column before and after it, the one that had the smaller
\* position still has the smaller position.
C35_OrderPreserved ==
  \A h \in Handlers :
    (Finished(h) /\ req[h].kind \in ItemKinds /\ outcome[h] = "ok") =>
      \A pair \in Bystanders(h) :
        pre[h].cards[pair[1]].position < pre[h].cards[pair[2]].position
          => cards[pair[1]].position < cards[pair[2]].position


\* The requests whose handlers open a transaction.
TransactionKinds ==
  {"createItem", "updateItem", "deleteItem", "updateContainer", "deleteContainer",
   "deleteTag", "register"}

\* C36: a handler that opens a transaction has finished it when it has
\* answered, and has not rolled back a transaction it had committed.
C36_TransactionFinished ==
  \A h \in Handlers :
    (Finished(h) /\ req[h].kind \in TransactionKinds) =>
      ~tx[h].open /\ outcome[h] # "unhandled"


\* The request of handler h is a move of the shape the board sends when a
\* drag ends: a column and a position, no title; the card and the column
\* exist, the position is inside the dense range, and no statement has
\* raised a storage error.
DragEndMove(h) ==
  /\ MoveOfExisting(h) /\ InRange(h)
  /\ req[h].title = NullStr
  /\ loc[h].faultAt \notin FaultSteps \cup {"u_reread"}

\* C37: a move of the shape the board sends when a drag ends succeeds: the
\* card is at the requested column and position with the title it had, and
\* the log has gained one entry, whose title is the card's.
C37_DragEndMove ==
  \A h \in Handlers :
    (Finished(h) /\ DragEndMove(h)) =>
      /\ outcome[h] = "ok"
      /\ req[h].card \in DOMAIN cards
      /\ cards[req[h].card].columnId = req[h].col
      /\ cards[req[h].card].position = req[h].pos
      /\ cards[req[h].card].title = Subject(h).title
      /\ Len(log) = Len(pre[h].log) + 1
      /\ log[Len(log)].cardTitle = Subject(h).title


\* C38: the position the page sends when a drag ends is one of 1..N for a
\* drop in the card's own column and one of 1..N+1 for a drop in another
\* column, N counting the cards of the destination column.
C38_DragPositionsDense ==
  client.pc = "awaitPut" =>
    LET n == Cardinality(CardsOf(pre[1].cards, req[1].col))
    IN IF pre[1].cards[req[1].card].columnId = req[1].col
         THEN req[1].pos \in 1..n
         ELSE req[1].pos \in 1..(n + 1)

\* The cards the page shows in column col: their ids and positions.
Shown(board, col) ==
  LET n == ColumnIndex(board, col)
  IN {<<board[n].cards[k].id, board[n].cards[k].position>> :
        k \in DOMAIN board[n].cards}

\* The cards of column col of a table: their ids and positions.
Stored(tbl, col) == {<<i, tbl[i].position>> : i \in CardsOf(tbl, col)}

=============================================================================
